---- MODULE Spec2Model ----
(***************************************************************************)
(* Model of the SMPP transceiver client of vumi                            *)
(* (src/vumi/workers/smpp/client.py): the protocol EsmeTransceiver, the    *)
(* reconnecting factory EsmeTransceiverFactory, the shared sequence cell   *)
(* and the redis keys the protocol uses.                                   *)
(***************************************************************************)
EXTENDS Integers, Sequences, FiniteSets, TLC

\* ------------------------------------------------------------------ bounds
\* Requests (the PDUs numbered from a sequence cell) sent over the whole run.
MaxSent == 4
\* submit_sm_resp PDUs received over the whole run.
MaxResps == 2
\* Sequence cells the factory creates (__init__ and setLatestSequenceNumber).
MaxCells == 2
\* Connection attempts that fail in a row.
MaxRetries == 2
\* PDUs in the byte stream the SMSC sends.
MaxPdus == 2
\* Messages a worker passes through its middleware stack.
MaxCalls == 2
\* Fragments of the observed message the SMSC sends, repeats included.
MaxArrivals == 5

\* ------------------------------------------------------------------ inputs
\* Valid (smpp_increment, smpp_offset) pairs: the factory's __init__ raises
\* on every other pair.
Configs == {c \in (1..2) \X (1..2) : c[1] >= c[2]}

\* Values setLatestSequenceNumber is called with.
LatestValues == {1, 7}

\* The (smpp_increment, smpp_offset) pairs a factory is constructed with,
\* valid or not: negative, zero and positive values in both places.
CandidateConfigs == (-1..3) \X (-1..3)

\* A value near the largest sequence number SMPP has, 2^31 - 1, as a host
\* restores it from the last number it used.
HighLatestValues == {2147483646}

VARIABLES
    inc,        \* int(config['smpp_increment'])
    off,        \* int(config['smpp_offset'])
    cells,      \* the one-element lists holding a sequence number, by identity
    factorySeq, \* EsmeTransceiverFactory.seq: the cell the factory refers to
    esme,       \* EsmeTransceiverFactory.esme and that protocol's fields
    link,       \* the TCP connection of the current protocol
    unacked,    \* redis list "<prefix>#unacked"
    multi,      \* redis strings "<prefix>#multi_<key>": the parts each holds
    sent,       \* every request written to a transport, in order (history)
    resps,      \* number of submit_sm_resp PDUs handled (history)
    strays,     \* of those, the ones that arrived with no submit outstanding
    last,       \* the last operation: its name, input, return value, pre-state
    events,     \* what the last operation did, in order
    factory,    \* the factory's reconnection attributes and its connector
    wire,       \* the PDUs, as bytes, the SMSC sends on the connection
    fed,        \* how many of those bytes dataReceived has been given
    handed,     \* the slices dataReceived has handed to handleData (history)
    journal,    \* the handling of each fragment under observation (history)
    refused,    \* a bind refusal under observation has reached the
                \* current protocol while it was OPEN (history)
    middlewares,         \* MiddlewareStack.middlewares, by name, in stack order
    processed_messages,  \* what the worker's processed() has recorded
    teardown_done,       \* each middleware's _teardown_done, 0 for False
    clock,               \* what time.time() reads next
    applied,             \* the last call on the stack and what it returned
    teardowns            \* the middlewares torn down, in call order (history)

vars == <<inc, off, cells, factorySeq, esme, link, unacked, multi, sent,
          resps, strays, last, events, factory, wire, fed, handed, journal,
          refused, middlewares, processed_messages, teardown_done, clock, applied,
          teardowns>>

\* What the SMSC has to send and what is recorded of its handling.
observed == <<wire, fed, handed, journal, refused>>

\* The middleware stack of a worker and what is recorded of its calls.
stack == <<middlewares, processed_messages, teardown_done, clock, applied,
           teardowns>>

\* The protocol, its factory, the store and the connection.
smpp == <<inc, off, cells, factorySeq, esme, link, unacked, multi, sent,
          resps, strays, last, events, factory, observed>>

\* ------------------------------------------------------------ protocol state
\* The six classes a command_status falls into: the keys of error_handlers.
ErrorClasses ==
    {"ok", "mess_permfault", "mess_tempfault", "conn_permfault",
     "conn_tempfault", "conn_throttle"}

\* The error_handlers of EsmeTransceiver.__init__: each class has its dummy
\* method, which does nothing but log.
DefaultHandlers == [c \in ErrorClasses |-> "dummy_" \o c]

\* The four callbacks of a protocol as __init__ leaves them: None.
NoCallbacks ==
    [connect |-> "None", submit_sm_resp |-> "None",
     delivery_report |-> "None", deliver_sm |-> "None"]

\* The callbacks the host gives the factory before it connects.
HostCallbacks ==
    [connect |-> "on_connect", submit_sm_resp |-> "on_submit_sm_resp",
     delivery_report |-> "on_delivery_report", deliver_sm |-> "on_deliver_sm"]

\* EsmeTransceiverFactory.esme = None.
NoEsme ==
    [id |-> 0, state |-> "CLOSED", seq |-> 0, lc |-> FALSE, timers |-> 0,
     first |-> "", datastream |-> <<>>, error_handlers |-> DefaultHandlers,
     callbacks |-> NoCallbacks]

\* EsmeTransceiver.__init__(seq, config, vumi_options): state CLOSED, the
\* factory's cell, no lc_enquire attribute, an empty datastream.  first is
\* the command_id of the first PDU the protocol writes to its transport
\* (history).
NewEsme(id, cell) ==
    [id |-> id, state |-> "CLOSED", seq |-> cell, lc |-> FALSE, timers |-> 0,
     first |-> "", datastream |-> <<>>, error_handlers |-> DefaultHandlers,
     callbacks |-> NoCallbacks]

\* transport.write of a PDU with this command_id, as first remembers it.
Wrote(e, cmd) == IF e.first = "" THEN [e EXCEPT !.first = cmd] ELSE e

BoundStates == {"BOUND_TX", "BOUND_TRX"}

\* No sar_* optional parameters: detect_multipart(pdu) is None.
NoSar == [ref |-> 0, total |-> 0, part |-> 0]

NoPdu == [command_id |-> "", command_status |-> "", sequence_number |-> 0,
          message_id |-> "", short_message |-> "", data_coding |-> 0,
          sar |-> NoSar]

\* getSeq: the value in the protocol's cell.
getSeq == cells[esme.seq]

\* Python's integers have no upper limit; the integers of the model end at
\* 2^31 - 1.  A value v past 2^31 - 1 is kept as v - 2^32, which is
\* negative, as no value of the program is: PastLimit tells such a value.
PyAdd(v, d) ==
    IF v > 2147483647 - d
    THEN ((v - 2147483647) + (d - 1)) + (-2147483647 - 1)
    ELSE v + d

PastLimit(v) == v < 0

\* Mutant of incSeq: the cell's value grows by one.
incSeqByOne == [cells EXCEPT ![esme.seq] = @ + 1]

\* incSeq: the cell's value grows by the increment, in place.
incSeq == [cells EXCEPT ![esme.seq] = PyAdd(@, inc)]

\* ------------------------------------------------------------------ events
Write(cmd, n) ==
    [ev |-> "write", name |-> cmd, seq |-> n, status |-> "", arg |-> ""]
Callback(name, n, status, arg) ==
    [ev |-> "callback", name |-> name, seq |-> n, status |-> status, arg |-> arg]
Redis(op, key) ==
    [ev |-> "redis", name |-> op, seq |-> 0, status |-> "", arg |-> key]
Timer(op) ==
    [ev |-> "timer", name |-> op, seq |-> 0, status |-> "", arg |-> ""]
\* An exception that leaves the operation.
Raised(name) ==
    [ev |-> "raise", name |-> name, seq |-> 0, status |-> "", arg |-> ""]

\* A request as sent: its command_id and sequence_number, the cell that
\* numbered it and who called for it (the host, the looping call or the
\* protocol itself).
Sent(cmd, n, cell, by) ==
    [command_id |-> cmd, sequence_number |-> n, cell |-> cell, by |-> by]

\* The pre-state an operation starts from, kept with its result.
Pre ==
    [state |-> esme.state,
     cursor |-> IF esme.id = 0 THEN cells[factorySeq] ELSE cells[esme.seq],
     unacked |-> Len(unacked), sent |-> Len(sent), timers |-> esme.timers,
     esme |-> esme.id, delay |-> factory.delay, retries |-> factory.retries,
     parts |-> Cardinality(multi), lc |-> esme.lc,
     handlers |-> esme.error_handlers]

\* An operation as last keeps it; handler is the handler of the command_id
\* that handleData called, if any.
Op(name, pdu, ret) ==
    [op |-> name, pdu |-> pdu, ret |-> ret, pre |-> Pre, handler |-> ""]

\* ------------------------------------------------------------ reconnection
\* Delays are in milliseconds.  The factory's __init__ sets initialDelay to
\* 30.0 and maxDelay to 45; delay itself starts as the class attribute of
\* ReconnectingClientFactory, 1.0, until resetDelay is first called.
initialDelay == 30000
maxDelay == 45000
ClassDelay == 1000

\* ReconnectingClientFactory.factor, e, in thousandths.
Factor == 2718

\* Mutant of resetDelay: nothing is reset.
resetDelayNot(f) == f

\* ReconnectingClientFactory.resetDelay: delay back to initialDelay, retries
\* to 0 (continueTrying is not changed by anything here).
resetDelay(f) == [f EXCEPT !.delay = initialDelay, !.retries = 0]

\* Mutant of RetryAllowed: one retry and no more.
RetryAllowedOnce(retries) == retries <= 1

\* The tests retry() returns early on: continueTrying is set and stays so,
\* and maxRetries is None, so the count of retries stops nothing.
RetryAllowed(retries) == TRUE

\* ReconnectingClientFactory.retry: one more retry counted, the delay
\* multiplied by the factor up to maxDelay (the jitter then drawn around it
\* is left out: delay is the value the jitter is centred on), and
\* connector.connect() scheduled after that delay.
retry(f) ==
    IF RetryAllowed(f.retries + 1)
    THEN [f EXCEPT !.retries = @ + 1,
                   !.delay = IF (@ * Factor) \div 1000 < maxDelay
                             THEN (@ * Factor) \div 1000 ELSE maxDelay,
                   !.connector = "waiting"]
    ELSE [f EXCEPT !.retries = @ + 1, !.connector = "stopped"]

\* -------------------------------------------------------------------- Init
\* EsmeTransceiverFactory.__init__: seq = [smpp_offset], esme = None; the
\* factory is then given to connectTCP, whose connector starts connecting.
\* The SMSC has nothing to send when wire is empty.
Constructed ==
    /\ \E c \in Configs : inc = c[1] /\ off = c[2]
    /\ cells = <<off>>
    /\ factorySeq = 1
    /\ esme = NoEsme
    /\ link = "down"
    /\ unacked = <<>>
    /\ multi = {}
    /\ sent = <<>>
    /\ resps = 0
    /\ strays = 0
    /\ last = [op |-> "__init__", pdu |-> NoPdu, ret |-> 0,
               pre |-> [state |-> "CLOSED", cursor |-> off, unacked |-> 0,
                        sent |-> 0, timers |-> 0, esme |-> 0,
                        delay |-> ClassDelay, retries |-> 0, parts |-> 0,
                        lc |-> FALSE, handlers |-> DefaultHandlers],
               handler |-> ""]
    /\ events = <<>>
    /\ factory = [delay |-> ClassDelay, retries |-> 0,
                  connector |-> "connecting", callbacks |-> HostCallbacks]
    /\ fed = 0
    /\ handed = <<>>
    /\ journal = <<>>
    /\ refused = FALSE

\* The names of the middlewares a stack is made of.
Names == {"mw1", "mw2", "mw3"}

\* No call made on the stack yet.
NoCall ==
    [n |-> 0, op |-> "", direction |-> "", message |-> "", endpoint |-> "",
     ret |-> "", pre |-> 0]

\* MiddlewareStack(ms) on middlewares that have been set up
\* (setup_middleware sets _teardown_done to False), and a worker that has
\* recorded nothing.
StackSetUp(ms) ==
    /\ middlewares = ms
    /\ processed_messages = <<>>
    /\ teardown_done = [name \in Names |-> 0]
    /\ clock = 1
    /\ applied = NoCall
    /\ teardowns = <<>>

Init ==
    /\ Constructed
    /\ wire = <<>>
    /\ StackSetUp(<<>>)

\* -------------------------------------------------------------- construction
\* Mutant of ConfigAccepted: the offset is not tested against 1.
ConfigAcceptedAnyOffset(increment, offset) ==
    /\ ~(increment < offset)
    /\ ~(increment < 1)

\* The three tests of EsmeTransceiverFactory.__init__, each of which raises
\* an Exception when it is true.
ConfigAccepted(increment, offset) ==
    /\ ~(increment < offset)
    /\ ~(increment < 1)
    /\ ~(offset < 1)

\* Before EsmeTransceiverFactory(config, vumi_options) is called: a config
\* with any pair of values, and no factory, cell, protocol or connector.
Unconstructed ==
    /\ \E c \in CandidateConfigs : inc = c[1] /\ off = c[2]
    /\ cells = <<>>
    /\ factorySeq = 0
    /\ esme = NoEsme
    /\ link = "down"
    /\ unacked = <<>>
    /\ multi = {}
    /\ sent = <<>>
    /\ resps = 0
    /\ strays = 0
    /\ last = [op |-> "", pdu |-> NoPdu, ret |-> 0,
               pre |-> [state |-> "CLOSED", cursor |-> 0, unacked |-> 0,
                        sent |-> 0, timers |-> 0, esme |-> 0,
                        delay |-> ClassDelay, retries |-> 0, parts |-> 0,
                        lc |-> FALSE, handlers |-> DefaultHandlers],
               handler |-> ""]
    /\ events = <<>>
    /\ factory = [delay |-> ClassDelay, retries |-> 0, connector |-> "none",
                  callbacks |-> HostCallbacks]
    /\ wire = <<>>
    /\ fed = 0
    /\ handed = <<>>
    /\ journal = <<>>
    /\ refused = FALSE
    /\ StackSetUp(<<>>)

\* EsmeTransceiverFactory.__init__(config, vumi_options), called once: an
\* Exception leaves before self.seq is assigned, so there is no factory and
\* no cell (ret is -1); otherwise seq = [smpp_offset], esme = None, and the
\* factory is given to connectTCP, whose connector starts connecting.
__init__ ==
    /\ last.op = ""
    /\ last' = [last EXCEPT !.op = "__init__",
                            !.ret = IF ConfigAccepted(inc, off) THEN 0 ELSE -1]
    /\ IF ConfigAccepted(inc, off)
       THEN /\ cells' = <<off>>
            /\ factorySeq' = 1
            /\ factory' = [factory EXCEPT !.connector = "connecting"]
       ELSE UNCHANGED <<cells, factorySeq, factory>>
    /\ events' = <<>>
    /\ UNCHANGED <<inc, off, esme, link, unacked, multi, sent, resps, strays,
                   observed, stack>>

\* ---------------------------------------------------------------- factory
\* Mutant of Installed: the new protocol is also given the error handlers
\* of the protocol before it.
InstalledWithHandlers(e, f) ==
    [e EXCEPT !.callbacks = f.callbacks,
              !.error_handlers = esme.error_handlers]

\* The four set...Callback calls of buildProtocol on the new protocol: the
\* connect, submit_sm_resp, delivery report and deliver_sm callbacks the
\* factory has at that moment.
Installed(e, f) == [e EXCEPT !.callbacks = f.callbacks]

\* Mutant of buildProtocol: the new protocol gets a cell of its own that
\* starts at the offset.
buildProtocolOwnSeq ==
    /\ link = "down"
    /\ factory.connector = "connecting"
    /\ Len(sent) < MaxSent
    /\ cells' = Append(cells, off)
    /\ esme' = Installed(NewEsme(esme.id + 1, Len(cells) + 1), factory)
    /\ link' = "built"
    /\ factory' = resetDelay([factory EXCEPT !.connector = "connected"])
    /\ last' = Op("buildProtocol", NoPdu, 0)
    /\ events' = <<>>
    /\ refused' = FALSE
    /\ UNCHANGED <<inc, off, factorySeq, unacked, multi, sent, resps, strays,
                   wire, fed, handed, journal, stack>>

\* EsmeTransceiverFactory.buildProtocol: a new protocol on the factory's
\* cell, called by the connector when the TCP connection it was setting up
\* is established; resetDelay is called here.
buildProtocol ==
    /\ link = "down"
    /\ factory.connector = "connecting"
    /\ Len(sent) < MaxSent
    /\ esme' = Installed(NewEsme(esme.id + 1, factorySeq), factory)
    /\ link' = "built"
    /\ factory' = resetDelay([factory EXCEPT !.connector = "connected"])
    /\ last' = Op("buildProtocol", NoPdu, 0)
    /\ events' = <<>>
    /\ refused' = FALSE
    /\ UNCHANGED <<inc, off, cells, factorySeq, unacked, multi, sent, resps,
                   strays, wire, fed, handed, journal, stack>>

\* EsmeTransceiver.connectionMade: OPEN, then bind_transceiver with the
\* cell's value, the cell advanced before the PDU is written.
connectionMade ==
    /\ link = "built"
    /\ Len(sent) < MaxSent
    /\ esme' = Wrote([esme EXCEPT !.state = "OPEN"], "bind_transceiver")
    /\ cells' = incSeq
    /\ sent' = Append(sent, Sent("bind_transceiver", getSeq, esme.seq, "engine"))
    /\ link' = "up"
    /\ last' = Op("connectionMade", NoPdu, 0)
    /\ events' = <<Write("bind_transceiver", getSeq)>>
    /\ UNCHANGED <<inc, off, factorySeq, unacked, multi, resps, strays,
                   factory, observed, stack>>

\* Mutant of TimerStops: no except clause, so the AttributeError of a
\* protocol without lc_enquire leaves connectionLost.
TimerStopsOrRaises(e) ==
    IF e.lc THEN <<Timer("stop")>> ELSE <<Raised("AttributeError")>>

\* The try block of connectionLost: lc_enquire.stop() when the protocol has
\* the attribute; when it has not, the AttributeError is swallowed by the
\* except clause.
TimerStops(e) == IF e.lc THEN <<Timer("stop")>> ELSE <<>>

\* The protocol after connectionLost: CLOSED, the looping call it referred
\* to stopped and the attribute deleted.
Closed(e) ==
    [e EXCEPT !.state = "CLOSED", !.lc = FALSE,
              !.timers = IF e.lc THEN @ - 1 ELSE @]

\* Mutant of connectionLost: the unacked list is emptied with the session.
connectionLostResets ==
    /\ link \in {"up", "failed"}
    /\ esme' = Closed(esme)
    /\ link' = "down"
    /\ factory' = retry(factory)
    /\ unacked' = <<>>
    /\ last' = Op("connectionLost", NoPdu, 0)
    /\ events' = TimerStops(esme) \o <<Callback("on_disconnect", 0, "", "")>>
    /\ UNCHANGED <<inc, off, cells, factorySeq, multi, sent, resps,
                   strays, observed, stack>>

\* EsmeTransceiver.connectionLost, then the factory's clientConnectionLost:
\* CLOSED; the looping call the protocol refers to is stopped and the
\* attribute deleted (the except clause swallows its absence); the
\* disconnect callback fires and ReconnectingClientFactory retries.  The
\* transport calls it when the connection drops, and also after an
\* exception has come out of dataReceived.
connectionLost ==
    /\ link \in {"up", "failed"}
    /\ esme' = Closed(esme)
    /\ link' = "down"
    /\ factory' = retry(factory)
    /\ last' = Op("connectionLost", NoPdu, 0)
    /\ events' = TimerStops(esme) \o <<Callback("on_disconnect", 0, "", "")>>
    /\ UNCHANGED <<inc, off, cells, factorySeq, unacked, multi, sent, resps,
                   strays, observed, stack>>

\* EsmeTransceiver.connectionLost called once more on a protocol whose
\* connection is already lost; the factory is not told again.
connectionLostAgain ==
    /\ link = "down"
    /\ esme.id > 0
    /\ esme' = Closed(esme)
    /\ last' = Op("connectionLostAgain", NoPdu, 0)
    /\ events' = TimerStops(esme)
    /\ UNCHANGED <<inc, off, cells, factorySeq, link, unacked, multi, sent,
                   resps, strays, factory, observed, stack>>

\* EsmeTransceiverFactory.clientConnectionFailed: a connection attempt has
\* failed; no protocol was built for it and no callback of the host is
\* called; ReconnectingClientFactory retries.
clientConnectionFailed ==
    /\ link = "down"
    /\ factory.connector = "connecting"
    /\ factory.retries < MaxRetries
    /\ factory' = retry(factory)
    /\ last' = Op("clientConnectionFailed", NoPdu, 0)
    /\ events' = <<>>
    /\ UNCHANGED <<inc, off, cells, factorySeq, esme, link, unacked, multi,
                   sent, resps, strays, observed, stack>>

\* The call retry() scheduled comes due: connector.connect() starts the
\* next connection attempt.
reconnect ==
    /\ factory.connector = "waiting"
    /\ factory' = [factory EXCEPT !.connector = "connecting"]
    /\ last' = Op("reconnect", NoPdu, 0)
    /\ events' = <<>>
    /\ UNCHANGED <<inc, off, cells, factorySeq, esme, link, unacked, multi,
                   sent, resps, strays, observed, stack>>

\* EsmeTransceiver.disconnect and forceConnectionFailure: both bodies are
\* pass.
disconnect ==
    /\ esme.id > 0
    /\ last' = Op("disconnect", NoPdu, 0)
    /\ events' = <<>>
    /\ UNCHANGED <<inc, off, cells, factorySeq, esme, link, unacked, multi,
                   sent, resps, strays, factory, observed, stack>>

\* Mutant of setLatestSequenceNumber: the value is stored in the list the
\* factory already has, self.seq[0] = latest.
setLatestSequenceNumberInPlace(latest) ==
    /\ Len(cells) < MaxCells
    /\ cells' = [cells EXCEPT ![factorySeq] = latest]
    /\ last' = Op("setLatestSequenceNumber", NoPdu, 0)
    /\ events' = <<>>
    /\ UNCHANGED <<inc, off, factorySeq, esme, link, unacked, multi, sent,
                   resps, strays, factory, observed, stack>>

\* EsmeTransceiverFactory.setLatestSequenceNumber: the factory is given a
\* new one-element list; a protocol already built keeps the old one.
setLatestSequenceNumber(latest) ==
    /\ Len(cells) < MaxCells
    /\ cells' = Append(cells, latest)
    /\ factorySeq' = Len(cells) + 1
    /\ last' = Op("setLatestSequenceNumber", NoPdu, 0)
    /\ events' = <<>>
    /\ UNCHANGED <<inc, off, esme, link, unacked, multi, sent, resps, strays,
                   factory, observed, stack>>

\* The handlers a host installs: one for a class, or one for two classes
\* at once.
HandlerDicts ==
    {[c \in {"conn_throttle"} |-> "host_throttle"],
     [c \in {"ok", "conn_throttle"} |-> "host_any"]}

\* Mutant of Updated: the dict given takes the place of error_handlers, the
\* classes it does not name falling back to their dummies.
UpdatedAll(handlers, handler_dict) ==
    [c \in ErrorClasses |->
        IF c \in DOMAIN handler_dict THEN handler_dict[c]
        ELSE DefaultHandlers[c]]

\* dict.update on error_handlers: the classes the dict names get its
\* handlers, every other class keeps the one it has.
Updated(handlers, handler_dict) ==
    [c \in ErrorClasses |->
        IF c \in DOMAIN handler_dict THEN handler_dict[c] ELSE handlers[c]]

\* EsmeTransceiver.update_error_handlers(handler_dict), called by the host
\* on the factory's current protocol; dict is the argument (history).
update_error_handlers(handler_dict) ==
    /\ esme.id > 0
    /\ esme' = [esme EXCEPT
                   !.error_handlers = Updated(@, handler_dict)]
    /\ last' = [op |-> "update_error_handlers", pdu |-> NoPdu, ret |-> 0,
                pre |-> Pre, handler |-> "", dict |-> handler_dict]
    /\ events' = <<>>
    /\ UNCHANGED <<inc, off, cells, factorySeq, link, unacked, multi, sent,
                   resps, strays, factory, observed, stack>>

\* What the host passes to one of the factory's callback setters: the
\* callback it replaces the one it gave at the start with.
CallbacksFor(which) == {HostCallbacks[which] \o "_2"}

\* The body the factory's four callback setters share: the attribute of the
\* factory is assigned, the protocol it has built is not touched.
SetCallback(opname, which, callback) ==
    /\ factory' = [factory EXCEPT !.callbacks[which] = callback]
    /\ last' = Op(opname, NoPdu, 0)
    /\ events' = <<>>
    /\ UNCHANGED <<inc, off, cells, factorySeq, esme, link, unacked, multi,
                   sent, resps, strays, observed, stack>>

\* EsmeTransceiverFactory.setConnectCallback(connect_callback).
setConnectCallback(connect_callback) ==
    SetCallback("setConnectCallback", "connect", connect_callback)

\* EsmeTransceiverFactory.setSubmitSMRespCallback(submit_sm_resp_callback).
setSubmitSMRespCallback(submit_sm_resp_callback) ==
    SetCallback("setSubmitSMRespCallback", "submit_sm_resp",
                submit_sm_resp_callback)

\* EsmeTransceiverFactory.setDeliveryReportCallback(delivery_report_callback).
setDeliveryReportCallback(delivery_report_callback) ==
    SetCallback("setDeliveryReportCallback", "delivery_report",
                delivery_report_callback)

\* EsmeTransceiverFactory.setDeliverSMCallback(deliver_sm_callback).
setDeliverSMCallback(deliver_sm_callback) ==
    SetCallback("setDeliverSMCallback", "deliver_sm", deliver_sm_callback)

\* ------------------------------------------------------------ redis lists
\* Mutant of lpush: the marker is not pushed.
lpushNothing(list) == list

\* lpush(key, 1): the marker goes to the head of the list.
lpush(list) == <<1>> \o list

\* Mutant of lpop: nothing is removed.
lpopNothing(list) == list

\* Mutant of lpop: the list is emptied.
lpopAll(list) == <<>>

\* lpop(key): the head is removed; on an empty list nothing happens.
lpop(list) == IF list = <<>> THEN list ELSE Tail(list)

\* ------------------------------------------------------ outbound requests
\* Mutant of SendAllowed: the state is not tested.
SendAllowedAlways(state) == TRUE

\* The test every send operation starts with:
\* self.state in ['BOUND_TX', 'BOUND_TRX'].
SendAllowed(state) == state \in BoundStates

\* The body the four send operations share, run on the factory's current
\* protocol: getSeq, the PDU built, incSeq, sendPDU, the sequence number
\* returned; 0 and nothing else when not bound.
\* submit_sm alone pushes a marker onto the unacked list, after sendPDU.
Request(cmd, by, opname, push) ==
    /\ IF SendAllowed(esme.state)
       THEN /\ Len(sent) < MaxSent
            /\ cells' = incSeq
            /\ sent' = Append(sent, Sent(cmd, getSeq, esme.seq, by))
            /\ unacked' = IF push THEN lpush(unacked) ELSE unacked
            /\ esme' = Wrote(esme, cmd)
            /\ last' = Op(opname, NoPdu, getSeq)
            /\ events' = <<Write(cmd, getSeq)>>
                         \o (IF push THEN <<Redis("lpush", "unacked")>> ELSE <<>>)
       ELSE /\ last' = Op(opname, NoPdu, 0)
            /\ events' = <<>>
            /\ UNCHANGED <<cells, sent, unacked, esme>>
    /\ UNCHANGED <<inc, off, factorySeq, link, multi, resps, strays, factory,
                   observed, stack>>

\* EsmeTransceiver.submit_sm(**kwargs), called by the host.
submit_sm ==
    /\ esme.id > 0
    /\ Request("submit_sm", "host", "submit_sm", TRUE)

\* Mutant of submit_multi: a marker is pushed as submit_sm pushes one.
submit_multi_pushes ==
    /\ esme.id > 0
    /\ Request("submit_multi", "host", "submit_multi", TRUE)

\* EsmeTransceiver.submit_multi(dest_address, **kwargs), called by the host.
submit_multi ==
    /\ esme.id > 0
    /\ Request("submit_multi", "host", "submit_multi", FALSE)

\* EsmeTransceiver.enquire_link(**kwargs), called by the host.
enquire_link ==
    /\ esme.id > 0
    /\ Request("enquire_link", "host", "enquire_link", FALSE)

\* EsmeTransceiver.query_sm(message_id, source_addr, **kwargs), by the host.
query_sm ==
    /\ esme.id > 0
    /\ Request("query_sm", "host", "query_sm", FALSE)

\* A later run of LoopingCall(self.enquire_link), 55 s after the last one.
lc_enquire ==
    /\ esme.timers > 0
    /\ Request("enquire_link", "timer", "lc_enquire", FALSE)

\* ------------------------------------------------------ status classifier
\* build_maps: the statuses dispatched to each class; a status in none of
\* the sets (ESME_ROK among them) gets dispatch_ok.
MessPermfaultStatuses ==
    {"ESME_RINVMSGLEN", "ESME_RINVCMDLEN", "ESME_RINVCMDID",
     "ESME_RINVPRTFLG", "ESME_RINVREGDLVFLG", "ESME_RINVSRCADR",
     "ESME_RINVDSTADR", "ESME_RINVMSGID", "ESME_RCANCELFAIL",
     "ESME_RREPLACEFAIL", "ESME_RINVNUMDESTS", "ESME_RINVDLNAME",
     "ESME_RINVDESTFLAG", "ESME_RINVSUBREP", "ESME_RINVESMCLASS",
     "ESME_RCNTSUBDL", "ESME_RINVSRCTON", "ESME_RINVSRCNPI",
     "ESME_RINVDSTTON", "ESME_RINVDSTNPI", "ESME_RINVREPFLAG",
     "ESME_RINVSCHED", "ESME_RINVEXPIRY", "ESME_RINVDFTMSGID",
     "ESME_RX_P_APPN", "ESME_RX_R_APPN", "ESME_RQUERYFAIL",
     "ESME_RINVOPTPARSTREAM", "ESME_ROPTPARNOTALLWD", "ESME_RINVPARLEN",
     "ESME_RMISSINGOPTPARAM", "ESME_RINVOPTPARAMVAL"}
MessTempfaultStatuses ==
    {"ESME_RSUBMITFAIL", "ESME_RINVNUMMSGS", "ESME_RX_T_APPN",
     "ESME_RDELIVERYFAILURE", "ESME_RUNKNOWNERR"}
ConnTempfaultStatuses == {"ESME_RINVBNDSTS", "ESME_RALYBND"}
ConnPermfaultStatuses ==
    {"ESME_RSYSERR", "ESME_RBINDFAIL", "ESME_RINVPASWD", "ESME_RINVSYSID",
     "ESME_RINVSERTYP", "ESME_RINVSYSTYP"}
ConnThrottleStatuses == {"ESME_RMSGQFUL", "ESME_RTHROTTLED"}

\* The one status build_maps dispatches to dispatch_ok by name.
OkStatuses == {"ESME_ROK"}

\* The keys of ESME_command_status_dispatch_map.
DispatchMapKeys ==
    OkStatuses \cup MessPermfaultStatuses \cup MessTempfaultStatuses
    \cup ConnTempfaultStatuses \cup ConnPermfaultStatuses
    \cup ConnThrottleStatuses

\* The keys of ESME_command_status_map.
StatusTable ==
    {"ESME_ROK", "ESME_RINVMSGLEN", "ESME_RINVCMDLEN", "ESME_RINVCMDID",
     "ESME_RINVBNDSTS", "ESME_RALYBND", "ESME_RINVPRTFLG",
     "ESME_RINVREGDLVFLG", "ESME_RSYSERR", "ESME_RINVSRCADR",
     "ESME_RINVDSTADR", "ESME_RINVMSGID", "ESME_RBINDFAIL",
     "ESME_RINVPASWD", "ESME_RINVSYSID", "ESME_RCANCELFAIL",
     "ESME_RREPLACEFAIL", "ESME_RMSGQFUL", "ESME_RINVSERTYP",
     "ESME_RINVNUMDESTS", "ESME_RINVDLNAME", "ESME_RINVDESTFLAG",
     "ESME_RINVSUBREP", "ESME_RINVESMCLASS", "ESME_RCNTSUBDL",
     "ESME_RSUBMITFAIL", "ESME_RINVSRCTON", "ESME_RINVSRCNPI",
     "ESME_RINVDSTTON", "ESME_RINVDSTNPI", "ESME_RINVSYSTYP",
     "ESME_RINVREPFLAG", "ESME_RINVNUMMSGS", "ESME_RTHROTTLED",
     "ESME_RINVSCHED", "ESME_RINVEXPIRY", "ESME_RINVDFTMSGID",
     "ESME_RX_T_APPN", "ESME_RX_P_APPN", "ESME_RX_R_APPN",
     "ESME_RQUERYFAIL", "ESME_RINVOPTPARSTREAM", "ESME_ROPTPARNOTALLWD",
     "ESME_RINVPARLEN", "ESME_RMISSINGOPTPARAM", "ESME_RINVOPTPARAMVAL",
     "ESME_RDELIVERYFAILURE", "ESME_RUNKNOWNERR"}

\* Statuses outside the table: what the unpacker gives for a code it does
\* not know, and a name no table has.
UnknownStatuses == {"None", "ESME_RFUTURE"}

\* Mutant of command_status_dispatch: a status the map has no entry for is
\* taken as a permanent fault of the message.
command_status_dispatch_strict(status) ==
    IF status \in OkStatuses THEN "ok"
    ELSE IF status \in MessTempfaultStatuses THEN "mess_tempfault"
    ELSE IF status \in ConnTempfaultStatuses THEN "conn_tempfault"
    ELSE IF status \in ConnPermfaultStatuses THEN "conn_permfault"
    ELSE IF status \in ConnThrottleStatuses THEN "conn_throttle"
    ELSE "mess_permfault"

\* command_status_dispatch: the class whose handler is called with the PDU.
command_status_dispatch(status) ==
    IF status \in MessPermfaultStatuses THEN "mess_permfault"
    ELSE IF status \in MessTempfaultStatuses THEN "mess_tempfault"
    ELSE IF status \in ConnTempfaultStatuses THEN "conn_tempfault"
    ELSE IF status \in ConnPermfaultStatuses THEN "conn_permfault"
    ELSE IF status \in ConnThrottleStatuses THEN "conn_throttle"
    ELSE "ok"

\* error_handler(pdu=pdu): the class handler called with the whole PDU.
\* fn is the function error_handlers has for the class at that moment.
Handler(pdu) ==
    [ev |-> "handler", name |-> command_status_dispatch(pdu.command_status),
     seq |-> pdu.sequence_number, status |-> pdu.command_status,
     arg |-> pdu.command_id,
     fn |-> esme.error_handlers[command_status_dispatch(pdu.command_status)]]

\* ------------------------------------------------------------ inbound PDUs
Pdu(cmd, status, n) ==
    [NoPdu EXCEPT !.command_id = cmd, !.command_status = status,
                  !.sequence_number = n]

\* message_id of a submit_sm_resp body is "None" when the body has none.

ReceiptText ==
    "id:ABC123 sub:001 dlvrd:001 submit date:1301010000 done date:1301010005 stat:DELIVRD err:000 Text:hello"

Sar(ref, total, part) == [ref |-> ref, total |-> total, part |-> part]

\* An inbound deliver_sm: short_message, data_coding and the sar_* optional
\* parameters.  Source and destination address are the same in all of them.
Deliver(status, n, message, data_coding, sar) ==
    [Pdu("deliver_sm", status, n) EXCEPT !.short_message = message,
                                         !.data_coding = data_coding,
                                         !.sar = sar]

SubmitResp(status, n, message_id) ==
    [Pdu("submit_sm_resp", status, n) EXCEPT !.message_id = message_id]

\* The PDUs the SMSC sends whose command_id has a handler that acts, with
\* statuses of three classes (ok, conn_throttle, conn_permfault), two
\* sequence numbers, a receipt, plain text with a known and an unknown
\* data_coding, and the two parts of one message.  The PDUs whose handler
\* does nothing are those of ClassifierPDUs.
InboundPDUs ==
    {Pdu("bind_transceiver_resp", "ESME_ROK", 3),
     Pdu("bind_transceiver_resp", "ESME_RSYSERR", 3),
     SubmitResp("ESME_ROK", 3, "ABC123"),
     SubmitResp("ESME_ROK", 9, "None"),
     SubmitResp("ESME_RTHROTTLED", 9, "ABC123"),
     SubmitResp("ESME_RSYSERR", 3, "None"),
     Pdu("enquire_link", "ESME_ROK", 3),
     Pdu("enquire_link", "ESME_ROK", 9),
     Pdu("enquire_link", "ESME_RSYSERR", 3),
     Deliver("ESME_ROK", 3, ReceiptText, 1, NoSar),
     Deliver("ESME_ROK", 9, ReceiptText, 1, Sar(1, 2, 1)),
     Deliver("ESME_ROK", 9, "hello", 1, NoSar),
     Deliver("ESME_ROK", 3, "hello", 0, NoSar),
     Deliver("ESME_ROK", 3, "he", 1, Sar(1, 2, 1)),
     Deliver("ESME_ROK", 9, "llo", 1, Sar(1, 2, 2)),
     Deliver("ESME_RSYSERR", 3, "hello", 1, NoSar),
     Deliver("ESME_RTHROTTLED", 9, "he", 1, Sar(1, 2, 1))}

\* The texts of the three parts of one concatenated message, by part number.
FragmentTexts == <<"he", "l", "lo">>

\* The three deliver_sm PDUs that carry those parts: the fragments whose
\* handling the journal records.
Fragments ==
    {Deliver("ESME_ROK", 10 + k, FragmentTexts[k], 1, Sar(2, 3, k)) :
        k \in 1..3}

\* ------------------------------------------------------- deliver_sm parts
\* Mutant of delivery_report: the pattern matches nothing.
delivery_reportNever(message) == FALSE

\* re.search of the delivery receipt pattern in short_message, on the
\* messages of InboundPDUs: only ReceiptText matches.
delivery_report(message) == message = ReceiptText

\* groupdict() of that match: the id and stat groups.
ReportId(message) == IF message = ReceiptText THEN "ABC123" ELSE ""
ReportStat(message) == IF message = ReceiptText THEN "DELIVRD" ELSE ""

\* detect_multipart(pdu): whether the PDU carries the sar_* parameters.
detect_multipart(pdu) == pdu.sar # NoSar

\* multipart_key(...): source, destination, reference and total number,
\* the addresses being the same for every PDU here.
multipart_key(sar) == <<sar.ref, sar.total>>

\* Mutant of r_prefix: each protocol has a prefix of its own.
r_prefixOfProtocol(e) == "system_id@host:port/" \o ToString(e.id)

\* r_prefix, set in the protocol's __init__ from config['system_id'],
\* config['host'] and config['port']: the config is the factory's, the same
\* for every protocol it builds.
r_prefix(e) == "system_id@host:port"

\* "%s#multi_%s" % (self.r_prefix, multipart_key(...)).
redis_key(sar) ==
    r_prefix(esme) \o "#multi_" \o ToString(sar.ref) \o "_"
    \o ToString(sar.total)

\* r_server.get(redis_key), decoded: the parts stored under the key.
StoredParts(sar) == {r \in multi : r.key = redis_key(sar)}

\* MultipartMessage(value).add_pdu(pdu): the part takes its part number's
\* slot, replacing what was there; key is the key the store has the parts
\* under.
add_pdu(parts, pdu) ==
    {r \in parts : r.part # pdu.sar.part}
    \cup {[key |-> redis_key(pdu.sar), ref |-> pdu.sar.ref,
           total |-> pdu.sar.total, part |-> pdu.sar.part,
           text |-> pdu.short_message]}

\* Mutant of JoinParts: the texts joined from the last part number down.
RECURSIVE JoinPartsReversed(_)
JoinPartsReversed(parts) ==
    IF parts = {} THEN ""
    ELSE LET final == CHOOSE r \in parts : \A q \in parts : r.part >= q.part
         IN  final.text \o JoinPartsReversed(parts \ {final})

\* The texts of the parts joined in part number order.
RECURSIVE JoinParts(_)
JoinParts(parts) ==
    IF parts = {} THEN ""
    ELSE LET first == CHOOSE r \in parts : \A q \in parts : r.part <= q.part
         IN  first.text \o JoinParts(parts \ {first})

\* Mutant of Completed: the message counts as complete one part early.
CompletedEarly(parts, sar) == Cardinality(parts) >= sar.total - 1

\* get_completed(): the message once as many parts are held as the total.
Completed(parts, sar) == Cardinality(parts) = sar.total

\* _decode_message: the codec chosen by data_coding.
Codec(data_coding) ==
    CASE data_coding = 1 -> "ascii"
      [] data_coding = 3 -> "latin1"
      [] data_coding = 8 -> "utf-16be"
      [] OTHER -> "None"

\* _decode_message on the messages of InboundPDUs, which are ASCII and come
\* with data_coding 0 or 1: a unicode object under ascii (and latin1), the
\* str itself when data_coding names no codec.
_decode_message(message, data_coding) ==
    IF Codec(data_coding) \in {"ascii", "latin1"}
    THEN "u'" \o message \o "'"
    ELSE message

\* -------------------------------------------------------- inbound handlers
\* Each handler gets the PDU and the events handleData produced before it.

\* Mutant of BindAccepted: the test is inverted.
BindAcceptedInverted(status) == status # "ESME_ROK"

\* Mutant of BindAccepted: every bind response is taken as accepted.
BindAcceptedAlways(status) == TRUE

\* The test of handle_bind_transceiver_resp.
BindAccepted(status) == status = "ESME_ROK"

\* Mutant of handle_bind_transceiver_resp: the looping call waits for its
\* first interval instead of running enquire_link at once.
handle_bind_transceiver_resp_later(pdu, h) ==
    IF pdu.command_status = "ESME_ROK"
    THEN LET bound == [esme EXCEPT !.state = "BOUND_TRX", !.lc = TRUE,
                                   !.timers = @ + 1]
         IN  /\ esme' = bound
             /\ events' = h \o <<Timer("start"),
                                Callback(esme.callbacks.connect, bound.id, "",
                                         bound.state)>>
             /\ UNCHANGED <<cells, sent, unacked, multi, resps, strays>>
    ELSE /\ events' = h
         /\ UNCHANGED <<esme, cells, sent, unacked, multi, resps, strays>>

\* Mutant of handle_bind_transceiver_resp: a refused bind is sent again.
handle_bind_transceiver_resp_rebinds(pdu, h) ==
    IF BindAccepted(pdu.command_status)
    THEN LET bound == [esme EXCEPT !.state = "BOUND_TRX", !.lc = TRUE,
                                   !.timers = @ + 1]
         IN  /\ Len(sent) < MaxSent
             /\ esme' = Wrote(bound, "enquire_link")
             /\ cells' = incSeq
             /\ sent' = Append(sent, Sent("enquire_link", getSeq, esme.seq,
                                          "timer"))
             /\ events' = h \o <<Timer("start"),
                                Write("enquire_link", getSeq),
                                Callback(esme.callbacks.connect, bound.id, "",
                                         bound.state)>>
             /\ UNCHANGED <<unacked, multi, resps, strays>>
    ELSE /\ Len(sent) < MaxSent
         /\ cells' = incSeq
         /\ sent' = Append(sent, Sent("bind_transceiver", getSeq, esme.seq,
                                      "engine"))
         /\ events' = h \o <<Write("bind_transceiver", getSeq)>>
         /\ UNCHANGED <<esme, unacked, multi, resps, strays>>

\* handle_bind_transceiver_resp: on ESME_ROK the state is BOUND_TRX, a new
\* LoopingCall(self.enquire_link) is started, which runs enquire_link at
\* once (start(55.0) calls it now) on the protocol now bound, and the
\* connect callback gets the protocol.  A looping call started earlier
\* keeps running.
handle_bind_transceiver_resp(pdu, h) ==
    IF BindAccepted(pdu.command_status)
    THEN LET bound == [esme EXCEPT !.state = "BOUND_TRX", !.lc = TRUE,
                                   !.timers = @ + 1]
         IN  /\ Len(sent) < MaxSent
             /\ esme' = Wrote(bound, "enquire_link")
             /\ cells' = incSeq
             /\ sent' = Append(sent, Sent("enquire_link", getSeq, esme.seq,
                                          "timer"))
             /\ events' = h \o <<Timer("start"),
                                Write("enquire_link", getSeq),
                                Callback(esme.callbacks.connect, bound.id, "",
                                         bound.state)>>
             /\ UNCHANGED <<unacked, multi, resps, strays>>
    ELSE /\ events' = h
         /\ UNCHANGED <<esme, cells, sent, unacked, multi, resps, strays>>

\* Number of submit_sm PDUs written so far.
Submits == Cardinality({i \in 1..Len(sent) : sent[i].command_id = "submit_sm"})

\* handle_submit_sm_resp: lpop on the unacked list, then the callback with
\* the header's sequence_number, command_status, command_id and the body's
\* message_id.
handle_submit_sm_resp(pdu, h) ==
    /\ resps < MaxResps
    /\ unacked' = lpop(unacked)
    /\ resps' = resps + 1
    /\ strays' = IF Submits = resps - strays THEN strays + 1 ELSE strays
    /\ events' = h \o <<Redis("lpop", "unacked"),
                       Callback(esme.callbacks.submit_sm_resp,
                                pdu.sequence_number, pdu.command_status,
                                pdu.command_id \o ":" \o pdu.message_id)>>
    /\ UNCHANGED <<esme, cells, sent, multi>>

\* The test of handle_deliver_sm.
DeliverAnswered(status) == status = "ESME_ROK"

\* Mutant of DeliverRespSeq: the response is numbered from the cell.
DeliverRespSeqOwn(pdu) == getSeq

\* The sequence number DeliverSMResp is built with.
DeliverRespSeq(pdu) == pdu.sequence_number

\* handle_deliver_sm: on ESME_ROK deliver_sm_resp is sent first; then a
\* delivery receipt goes to the delivery report callback, else a multipart
\* PDU is added to the stored parts (deleted and delivered when complete,
\* stored again otherwise), else the decoded message is delivered.
handle_deliver_sm(pdu, h) ==
    IF DeliverAnswered(pdu.command_status)
    THEN /\ esme' = Wrote(esme, "deliver_sm_resp")
         /\ LET w == <<Write("deliver_sm_resp", DeliverRespSeq(pdu))>>
                parts == add_pdu(StoredParts(pdu.sar), pdu)
            IN  IF delivery_report(pdu.short_message)
                THEN /\ events' = h \o w \o
                          <<Callback(esme.callbacks.delivery_report, 0,
                                     ReportStat(pdu.short_message),
                                     ReportId(pdu.short_message))>>
                     /\ multi' = multi
                ELSE IF detect_multipart(pdu)
                THEN IF Completed(parts, pdu.sar)
                     THEN /\ multi' = multi \ StoredParts(pdu.sar)
                          /\ events' = h \o w \o
                               <<Redis("get", redis_key(pdu.sar)),
                                 Redis("delete", redis_key(pdu.sar)),
                                 Callback(esme.callbacks.deliver_sm, 0, "",
                                          JoinParts(parts))>>
                     ELSE /\ multi' = (multi \ StoredParts(pdu.sar)) \cup parts
                          /\ events' = h \o w \o
                               <<Redis("get", redis_key(pdu.sar)),
                                 Redis("set", redis_key(pdu.sar))>>
                ELSE /\ events' = h \o w \o
                          <<Callback(esme.callbacks.deliver_sm, 0, "",
                                     _decode_message(pdu.short_message,
                                                     pdu.data_coding))>>
                     /\ multi' = multi
         /\ UNCHANGED <<cells, sent, unacked, resps, strays>>
    ELSE /\ events' = h
         /\ UNCHANGED <<esme, cells, sent, unacked, multi, resps, strays>>

\* Mutant of handle_enquire_link: the response is numbered from the cell,
\* as a request is, and the cell advanced.
handle_enquire_link_numbered(pdu, h) ==
    IF pdu.command_status = "ESME_ROK"
    THEN /\ esme' = Wrote(esme, "enquire_link_resp")
         /\ events' = h \o <<Write("enquire_link_resp", getSeq)>>
         /\ cells' = incSeq
         /\ UNCHANGED <<sent, unacked, multi, resps, strays>>
    ELSE /\ events' = h
         /\ UNCHANGED <<esme, cells, sent, unacked, multi, resps, strays>>

\* handle_enquire_link: on ESME_ROK enquire_link_resp with the same
\* sequence number.
handle_enquire_link(pdu, h) ==
    IF pdu.command_status = "ESME_ROK"
    THEN /\ esme' = Wrote(esme, "enquire_link_resp")
         /\ events' = h \o <<Write("enquire_link_resp", pdu.sequence_number)>>
         /\ UNCHANGED <<cells, sent, unacked, multi, resps, strays>>
    ELSE /\ events' = h
         /\ UNCHANGED <<esme, cells, sent, unacked, multi, resps, strays>>

\* handle_submit_multi_resp, handle_enquire_link_resp and a command_id no
\* handler is registered for: nothing beyond the class handler.
handle_nothing(pdu, h) ==
    /\ events' = h
    /\ UNCHANGED <<esme, cells, sent, unacked, multi, resps, strays>>

\* The command_ids handleData has a handler for.
KnownCommands ==
    {"bind_transceiver_resp", "submit_sm_resp", "submit_multi_resp",
     "deliver_sm", "enquire_link", "enquire_link_resp"}

\* The handler handleData calls for a command_id: handle_<command_id> for
\* the six it compares with, none for any other.
CommandHandler(command_id) ==
    IF command_id \in KnownCommands THEN "handle_" \o command_id ELSE ""

\* The bind responses by which an SMSC refuses a bind: the refusals whose
\* arrival refused records.  The statuses are of three classes.
BindRefusals ==
    {Pdu("bind_transceiver_resp", status, 1) :
        status \in {"ESME_RBINDFAIL", "ESME_RINVPASWD", "ESME_RALYBND",
                    "ESME_RTHROTTLED"}}

\* The bind response by which it accepts one.
BindAcceptance == Pdu("bind_transceiver_resp", "ESME_ROK", 1)

\* Mutant of Dispatched: the handler of the command_id is called only when
\* the class of the status is ok.
DispatchedWhenOk(pdu) == command_status_dispatch(pdu.command_status) = "ok"

\* Whether handleData goes on to the handler of the command_id after the
\* class handler: what error_handler(pdu=pdu) returns is not looked at.
Dispatched(pdu) == TRUE

\* EsmeTransceiver.handleData on one unpacked PDU, which the transport
\* delivers only while the connection is up: the class handler of the
\* status first, then the handler of the command_id.
handleData(pdu) ==
    /\ link = "up"
    /\ LET h == <<Handler(pdu)>>
           name == IF Dispatched(pdu) THEN CommandHandler(pdu.command_id)
                   ELSE ""
       IN  /\ last' = [Op("handleData", pdu, 0) EXCEPT !.handler = name]
           /\ CASE name = "handle_bind_transceiver_resp" ->
                        handle_bind_transceiver_resp(pdu, h)
                 [] name = "handle_submit_sm_resp" ->
                        handle_submit_sm_resp(pdu, h)
                 [] name = "handle_deliver_sm" -> handle_deliver_sm(pdu, h)
                 [] name = "handle_enquire_link" -> handle_enquire_link(pdu, h)
                 [] OTHER -> handle_nothing(pdu, h)
    /\ journal' = IF pdu \in Fragments
                  THEN Append(journal, [pdu |-> pdu, events |-> events',
                                        esme |-> esme.id])
                  ELSE journal
    /\ refused' = (refused \/ (pdu \in BindRefusals /\ esme.state = "OPEN"))
    /\ UNCHANGED <<inc, off, factorySeq, link, factory, wire, fed, handed,
                   stack>>

\* ------------------------------------------------------------------ framing
\* A PDU on the wire is a sequence of bytes: command_length, command_id,
\* command_status and sequence_number, four bytes each, most significant
\* first, then the body.
U32(n) ==
    <<n \div 16777216, (n \div 65536) % 256, (n \div 256) % 256, n % 256>>

CommandCode(cmd) ==
    CASE cmd = "generic_nack" -> <<128, 0, 0, 0>>
      [] cmd = "enquire_link_resp" -> <<128, 0, 0, 21>>
      [] cmd = "submit_multi_resp" -> <<128, 0, 0, 33>>

StatusCode(status) ==
    CASE status = "ESME_ROK" -> <<0, 0, 0, 0>>
      [] status = "ESME_RSYSERR" -> <<0, 0, 0, 8>>
      [] status = "ESME_RTHROTTLED" -> <<0, 0, 0, 88>>

\* The bytes of a PDU as the SMSC's encoder produces them.
Encode(cmd, status, n, body) ==
    U32(16 + Len(body)) \o CommandCode(cmd) \o StatusCode(status) \o U32(n)
    \o body

\* Well-formed PDUs of 16 and 19 bytes, of the command_ids whose handler
\* does nothing.
WirePDUs ==
    {Encode("enquire_link_resp", "ESME_ROK", 3, <<>>),
     Encode("submit_multi_resp", "ESME_RTHROTTLED", 9, <<65, 0, 0>>)}

\* Sixteen bytes that start with a length prefix no PDU has: 0, 8 and
\* 70000.
BadLengths == {0, 8, 70000}
MalformedBlocks ==
    {U32(n) \o CommandCode("generic_nack") \o StatusCode("ESME_ROK") \o U32(3) :
        n \in BadLengths}

\* What the SMSC may send on the connection: up to MaxPdus blocks.
Streams ==
    UNION {[1..k -> WirePDUs \cup MalformedBlocks] : k \in 1..MaxPdus}

\* The bytes of a sequence of blocks, one after the other.
RECURSIVE Bytes(_)
Bytes(blocks) ==
    IF blocks = <<>> THEN <<>> ELSE Head(blocks) \o Bytes(Tail(blocks))

\* int(binascii.b2a_hex(datastream[0:4]), 16).
command_length(buffer) ==
    buffer[1] * 16777216 + buffer[2] * 65536 + buffer[3] * 256 + buffer[4]

\* Mutant of popData: the slice is taken as soon as the header is there.
popDataEager(buffer) ==
    IF Len(buffer) >= 16
    THEN LET n == IF command_length(buffer) < Len(buffer)
                  THEN command_length(buffer) ELSE Len(buffer)
         IN  [found |-> TRUE, data |-> SubSeq(buffer, 1, n),
              rest |-> SubSeq(buffer, n + 1, Len(buffer))]
    ELSE [found |-> FALSE, data |-> <<>>, rest |-> buffer]

\* popData: with 16 bytes or more buffered and command_length bytes or more
\* buffered, the first command_length bytes are cut off the datastream and
\* returned; None otherwise.
popData(buffer) ==
    IF Len(buffer) >= 16 /\ Len(buffer) >= command_length(buffer)
    THEN [found |-> TRUE, data |-> SubSeq(buffer, 1, command_length(buffer)),
          rest |-> SubSeq(buffer, command_length(buffer) + 1, Len(buffer))]
    ELSE [found |-> FALSE, data |-> <<>>, rest |-> buffer]

\* unpack_pdu reads the four header fields from the first 16 bytes; on a
\* slice that lacks them (the slices of 0 and 8 bytes here) the conversion
\* of an empty field raises.
Unpackable(data) == Len(data) >= 16

CommandName(code) ==
    CASE code = <<128, 0, 0, 0>> -> "generic_nack"
      [] code = <<128, 0, 0, 21>> -> "enquire_link_resp"
      [] code = <<128, 0, 0, 33>> -> "submit_multi_resp"
      [] OTHER -> "None"

StatusName(code) ==
    CASE code = <<0, 0, 0, 0>> -> "ESME_ROK"
      [] code = <<0, 0, 0, 8>> -> "ESME_RSYSERR"
      [] code = <<0, 0, 0, 88>> -> "ESME_RTHROTTLED"
      [] OTHER -> "None"

\* unpack_pdu(data): the header of an unpackable slice.
unpack_pdu(data) ==
    Pdu(CommandName(SubSeq(data, 5, 8)), StatusName(SubSeq(data, 9, 12)),
        command_length(SubSeq(data, 13, 16)))

\* The loop of dataReceived on a buffer: popData and handleData in turn
\* until popData returns None or handleData raises in unpack_pdu.  The
\* result is the slices handed to handleData, what is left of the
\* datastream and whether an exception ended the loop.
RECURSIVE Drain(_)
Drain(buffer) ==
    LET p == popData(buffer)
    IN  IF ~p.found
        THEN [slices |-> <<>>, rest |-> buffer, raised |-> FALSE]
        ELSE IF ~Unpackable(p.data)
        THEN [slices |-> <<p.data>>, rest |-> p.rest, raised |-> TRUE]
        ELSE LET more == Drain(p.rest)
             IN  [more EXCEPT !.slices = <<p.data>> \o @]

\* EsmeTransceiver.dataReceived on the next n bytes of the wire: they are
\* appended to the datastream and the loop runs.  The PDUs on the wire have
\* command_ids whose handler does nothing, so each handleData calls the
\* class handler of the status and nothing else.  An exception leaves
\* dataReceived for the transport, which then drops the connection.
dataReceived(n) ==
    /\ link = "up"
    /\ LET chunk == SubSeq(Bytes(wire), fed + 1, fed + n)
           d == Drain(esme.datastream \o chunk)
           whole == SelectSeq(d.slices, Unpackable)
       IN  /\ esme' = [esme EXCEPT !.datastream = d.rest]
           /\ handed' = handed \o d.slices
           /\ events' = [i \in 1..Len(whole) |-> Handler(unpack_pdu(whole[i]))]
           /\ link' = IF d.raised THEN "failed" ELSE link
    /\ fed' = fed + n
    /\ last' = Op("dataReceived", NoPdu, 0)
    /\ UNCHANGED <<inc, off, cells, factorySeq, unacked, multi, sent, resps,
                   strays, factory, wire, journal, refused, stack>>

\* The transport's connectionLost after an exception out of dataReceived.
connectionFailed ==
    /\ link = "failed"
    /\ connectionLost

\* The fragments the journal has: those the SMSC has sent already.
Arrived == {journal[i].pdu : i \in 1..Len(journal)}

\* handleData on a fragment of the observed message, each of which the SMSC
\* sends once, in any order.
receive_fragment(pdu) ==
    /\ pdu \notin Arrived
    /\ handleData(pdu)

\* handleData on a fragment of the observed message when the SMSC may
\* send a fragment again, before or after the message is complete.
receive_any(pdu) ==
    /\ Len(journal) < MaxArrivals
    /\ handleData(pdu)

\* The bind responses among the inbound PDUs: the only inbound PDUs whose
\* handling takes a number from the sequence cell.
BindResponses == {p \in InboundPDUs : p.command_id = "bind_transceiver_resp"}

\* The command_ids whose handler does nothing: submit_multi_resp and
\* enquire_link_resp (both bodies are pass) and one handleData has no
\* handler for.
NoHandlerCommands == {"submit_multi_resp", "enquire_link_resp", "generic_nack"}

\* PDUs of those command_ids with every status of the table and the
\* unknown ones.
ClassifierPDUs ==
    {Pdu(cmd, status, n) : cmd \in NoHandlerCommands,
                           status \in StatusTable \cup UnknownStatuses,
                           n \in {3, 9}}

\* submit_multi_resp PDUs with a status of four classes (ok, conn_throttle,
\* mess_permfault and a status no table has).
SubmitMultiResps ==
    {p \in ClassifierPDUs :
        /\ p.command_id = "submit_multi_resp"
        /\ p.command_status \in {"ESME_ROK", "ESME_RTHROTTLED",
                                  "ESME_RINVDLNAME", "None"}}

\* The enquire_link PDUs among the inbound PDUs, and enquire_link_resp PDUs
\* as they answer the protocol's own enquire_link, accepted and not.
EnquireLinks == {p \in InboundPDUs : p.command_id = "enquire_link"}
EnquireLinkResps ==
    {p \in ClassifierPDUs :
        /\ p.command_id = "enquire_link_resp"
        /\ p.command_status \in {"ESME_ROK", "ESME_RSYSERR"}}

\* PDUs with a command_id handleData has no handler for: generic_nack and
\* what the unpacker gives for a code it does not know.
UnhandledPDUs ==
    {Pdu(cmd, status, 9) :
        cmd \in {"generic_nack", "None"},
        status \in {"ESME_ROK", "ESME_RTHROTTLED", "None"}}

\* The first part of a message of two parts: once handled it stays in the
\* store.
FirstPart == Deliver("ESME_ROK", 3, "he", 1, Sar(1, 2, 1))

\* The deliver_sm PDUs among the inbound PDUs: the only ones whose handling
\* reads or writes the stored parts.
DeliverPDUs == {p \in InboundPDUs : p.command_id = "deliver_sm"}

\* --------------------------------------------------------------- middleware
\* The stacks a worker is given: the middlewares of Names, some or all of
\* them, each at most once, in any order.
Stacks ==
    {ms \in UNION {[1..k -> Names] : k \in 0..Cardinality(Names)} :
        \A i, j \in 1..Len(ms) : i # j => ms[i] # ms[j]}

\* The handler names, messages and endpoints the stack is called with.
Directions == {"inbound", "outbound"}
Messages == {"dummy_msg"}
Endpoints == {"end_foo", "end_bar"}

\* Mutant of _handle: the message is recorded with the name added but the
\* message that came in is returned.
_handleReturnsInput(name, direction, message, endpoint) ==
    [message |-> message,
     processed |-> <<name, direction, message \o "." \o name, endpoint>>]

\* ToyMiddleware._handle: the middleware's name is added to the message,
\* the worker's processed() records name, direction, message and endpoint,
\* and the new message is returned.
_handle(name, direction, message, endpoint) ==
    [message |-> message \o "." \o name,
     processed |-> <<name, direction, message \o "." \o name, endpoint>>]

\* ToyMiddleware.handle_inbound, handle_outbound, handle_event and
\* handle_failure, chosen by 'handle_<direction>': each is _handle with its
\* direction.
handler(name, direction, message, endpoint) ==
    _handle(name, direction, message, endpoint)

\* The middlewares of order called one after the other, each with the
\* message the one before returned and with the same endpoint.
RECURSIVE Through(_, _, _, _)
Through(order, direction, message, endpoint) ==
    IF order = <<>>
    THEN [message |-> message, processed |-> <<>>]
    ELSE LET r == handler(Head(order), direction, message, endpoint)
             rest == Through(Tail(order), direction, r.message, endpoint)
         IN  [message |-> rest.message,
              processed |-> <<r.processed>> \o rest.processed]

\* reversed(middlewares).
RECURSIVE Reversed(_)
Reversed(ms) ==
    IF ms = <<>> THEN <<>> ELSE Append(Reversed(Tail(ms)), Head(ms))

\* A call on the stack, its arguments, what it returned and how many
\* messages the worker had recorded before it.
Call(op, direction, message, endpoint, ret) ==
    [n |-> applied.n + 1, op |-> op, direction |-> direction,
     message |-> message, endpoint |-> endpoint, ret |-> ret,
     pre |-> Len(processed_messages)]

\* MiddlewareStack.apply_consume(handler_name, message, endpoint): through
\* the middlewares in stack order.
apply_consume(direction, message, endpoint) ==
    /\ applied.op # "teardown"
    /\ applied.n < MaxCalls
    /\ LET r == Through(middlewares, direction, message, endpoint)
       IN  /\ processed_messages' = processed_messages \o r.processed
           /\ applied' = Call("apply_consume", direction, message, endpoint,
                              r.message)
    /\ UNCHANGED <<middlewares, teardown_done, clock, teardowns>>
    /\ UNCHANGED smpp

\* MiddlewareStack.apply_publish(handler_name, message, endpoint): through
\* the middlewares in the reverse of stack order.
apply_publish(direction, message, endpoint) ==
    /\ applied.op # "teardown"
    /\ applied.n < MaxCalls
    /\ LET r == Through(Reversed(middlewares), direction, message, endpoint)
       IN  /\ processed_messages' = processed_messages \o r.processed
           /\ applied' = Call("apply_publish", direction, message, endpoint,
                              r.message)
    /\ UNCHANGED <<middlewares, teardown_done, clock, teardowns>>
    /\ UNCHANGED smpp

\* Mutant of teardown_middleware: nothing is recorded.
teardown_middlewareForgets(done, name, now) == done

\* ToyMiddleware.teardown_middleware: _teardown_done = time.time().
teardown_middleware(done, name, now) == [done EXCEPT ![name] = now]

\* The middlewares of order torn down one after the other, the clock
\* reading tick later at each.
RECURSIVE TornDown(_, _, _, _)
TornDown(order, done, now, tick) ==
    IF order = <<>>
    THEN done
    ELSE TornDown(Tail(order), teardown_middleware(done, Head(order), now),
                  now + tick, tick)

\* MiddlewareStack.teardown(), called once when the worker stops: every
\* middleware's teardown_middleware in the reverse of stack order, each
\* finished before the next is called.  Between two readings of
\* time.time() the clock has moved on (tick 1) or, too coarse, has not
\* (tick 0).
teardown(tick) ==
    /\ applied.op # "teardown"
    /\ teardown_done' = TornDown(Reversed(middlewares), teardown_done, clock,
                                 tick)
    /\ teardowns' = teardowns \o Reversed(middlewares)
    /\ clock' = clock + tick * Len(middlewares)
    /\ applied' = Call("teardown", "", "", "", "")
    /\ UNCHANGED <<middlewares, processed_messages>>
    /\ UNCHANGED smpp

\* ----------------------------------------------------------- specifications
\* The middleware stack of a worker: messages consumed and published
\* through it, then its teardown.
StackInit ==
    /\ Constructed
    /\ wire = <<>>
    /\ \E ms \in Stacks : StackSetUp(ms)

StackNext ==
    \/ \E d \in Directions, m \in Messages, e \in Endpoints :
          apply_consume(d, m, e)
    \/ \E d \in Directions, m \in Messages, e \in Endpoints :
          apply_publish(d, m, e)
    \/ \E tick \in {0, 1} : teardown(tick)

StackSpec == StackInit /\ [][StackNext]_vars

\* The protocol and its factory: connections made and lost, the host's
\* requests, the looping call and the inbound PDUs that answer requests or
\* ask for an answer; deliver_sm has a specification of its own.
Next ==
    \/ buildProtocol
    \/ connectionMade
    \/ connectionLost
    \/ reconnect
    \/ submit_sm
    \/ submit_multi
    \/ enquire_link
    \/ query_sm
    \/ lc_enquire
    \/ \E pdu \in InboundPDUs \ DeliverPDUs : handleData(pdu)

Spec == Init /\ [][Next]_vars

\* Delivery: connections made, bound and lost, and every deliver_sm of the
\* inbound PDUs, in any order and any number of times.
DeliverNext ==
    \/ buildProtocol
    \/ connectionMade
    \/ connectionLost
    \/ reconnect
    \/ \E pdu \in BindResponses \cup DeliverPDUs : handleData(pdu)

DeliverSpec == Init /\ [][DeliverNext]_vars

\* The sequence numbers: every operation that reads or advances a sequence
\* cell, and the factory's setLatestSequenceNumber.
SeqNext ==
    \/ buildProtocol
    \/ connectionMade
    \/ connectionLost
    \/ reconnect
    \/ \E latest \in LatestValues : setLatestSequenceNumber(latest)
    \/ submit_sm
    \/ submit_multi
    \/ enquire_link
    \/ query_sm
    \/ lc_enquire
    \/ \E pdu \in BindResponses : handleData(pdu)

SeqSpec == Init /\ [][SeqNext]_vars

\* The sequence numbers near 2^31 - 1: the factory is given a high value
\* and the protocols built afterwards number from it.
WrapNext ==
    \/ buildProtocol
    \/ connectionMade
    \/ connectionLost
    \/ reconnect
    \/ \E latest \in HighLatestValues : setLatestSequenceNumber(latest)
    \/ submit_sm
    \/ submit_multi
    \/ enquire_link
    \/ query_sm
    \/ lc_enquire
    \/ \E pdu \in BindResponses : handleData(pdu)

WrapSpec == Init /\ [][WrapNext]_vars

\* Reassembly: the three fragments of one message arriving in any order,
\* on one connection or spread over several.
MultiNext ==
    \/ buildProtocol
    \/ connectionMade
    \/ connectionLost
    \/ reconnect
    \/ \E pdu \in BindResponses : handleData(pdu)
    \/ \E pdu \in Fragments : receive_fragment(pdu)

MultiSpec == Init /\ [][MultiNext]_vars

\* Framing: the SMSC's byte stream is chosen at the start and reaches
\* dataReceived cut into chunks of any sizes.
FrameInit ==
    /\ Constructed
    /\ wire \in Streams
    /\ StackSetUp(<<>>)

FrameNext ==
    \/ buildProtocol
    \/ connectionMade
    \/ \E n \in 1..(Len(Bytes(wire)) - fed) : dataReceived(n)
    \/ connectionFailed

FrameSpec == FrameInit /\ [][FrameNext]_vars

\* Reconnection: connections established, lost and failed, binds accepted
\* and refused, and the protocol's disconnect.  The reactor runs the call
\* retry() scheduled once its delay is over.
ReconnNext ==
    \/ buildProtocol
    \/ connectionMade
    \/ connectionLost
    \/ clientConnectionFailed
    \/ reconnect
    \/ disconnect
    \/ \E pdu \in BindResponses : handleData(pdu)

ReconnSpec == Init /\ [][ReconnNext]_vars /\ WF_vars(reconnect)

\* The status classifier: one connection on which the SMSC sends PDUs of
\* every status.
ClassNext ==
    \/ buildProtocol
    \/ connectionMade
    \/ \E pdu \in ClassifierPDUs : handleData(pdu)

ClassSpec == Init /\ [][ClassNext]_vars

\* submit_multi and its response, next to submit_sm, which fills the
\* unacked list, and a part of a message, which fills the store.
SubmitMultiNext ==
    \/ buildProtocol
    \/ connectionMade
    \/ connectionLost
    \/ reconnect
    \/ submit_sm
    \/ submit_multi
    \/ \E pdu \in BindResponses \cup SubmitMultiResps \cup {FirstPart} :
          handleData(pdu)

SubmitMultiSpec == Init /\ [][SubmitMultiNext]_vars

\* Keep-alive: the looping call and the host send enquire_link, the SMSC
\* answers them and sends enquire_link of its own.
KeepAliveNext ==
    \/ buildProtocol
    \/ connectionMade
    \/ connectionLost
    \/ reconnect
    \/ connectionLostAgain
    \/ enquire_link
    \/ lc_enquire
    \/ \E pdu \in BindResponses \cup EnquireLinks \cup EnquireLinkResps :
          handleData(pdu)

KeepAliveSpec == Init /\ [][KeepAliveNext]_vars

\* Dispatch: one connection on which the SMSC sends PDUs of every
\* command_id, with and without a handler, while the host submits.
DispatchNext ==
    \/ buildProtocol
    \/ connectionMade
    \/ submit_sm
    \/ \E pdu \in InboundPDUs \cup SubmitMultiResps \cup EnquireLinkResps
                  \cup UnhandledPDUs : handleData(pdu)

DispatchSpec == Init /\ [][DispatchNext]_vars

\* Retransmission: the fragments of one message arriving on a connection
\* in any order and any number of times.
RepeatNext ==
    \/ buildProtocol
    \/ connectionMade
    \/ \E pdu \in Fragments : receive_any(pdu)

RepeatSpec == Init /\ [][RepeatNext]_vars

\* Construction: a factory is constructed from any pair of values and, when
\* that succeeds, connects, binds and sends.
ConfNext ==
    \/ __init__
    \/ buildProtocol
    \/ connectionMade
    \/ connectionLost
    \/ reconnect
    \/ submit_sm
    \/ \E pdu \in BindResponses : handleData(pdu)

ConfSpec == Unconstructed /\ [][ConfNext]_vars

\* Binding: connections made and lost, the SMSC refusing and accepting the
\* bind in any order and number, and the send operations in every state.
BindNext ==
    \/ buildProtocol
    \/ connectionMade
    \/ connectionLost
    \/ reconnect
    \/ submit_sm
    \/ submit_multi
    \/ enquire_link
    \/ query_sm
    \/ lc_enquire
    \/ \E pdu \in BindRefusals \cup {BindAcceptance} : handleData(pdu)

BindSpec == Init /\ [][BindNext]_vars

\* The PDUs that between them call the four host callbacks and the
\* handlers of two classes.
CallbackPDUs ==
    {BindAcceptance,
     SubmitResp("ESME_RTHROTTLED", 9, "ABC123"),
     Deliver("ESME_ROK", 3, ReceiptText, 1, NoSar),
     Deliver("ESME_ROK", 9, "hello", 1, NoSar)}

\* Handlers and callbacks: the host installs error handlers on the current
\* protocol and callbacks on the factory at any moment, connections are
\* made and lost, and PDUs arrive that call them.
HandlersNext ==
    \/ buildProtocol
    \/ connectionMade
    \/ connectionLost
    \/ reconnect
    \/ \E handler_dict \in HandlerDicts : update_error_handlers(handler_dict)
    \/ \E cb \in CallbacksFor("connect") : setConnectCallback(cb)
    \/ \E cb \in CallbacksFor("deliver_sm") : setDeliverSMCallback(cb)
    \/ \E pdu \in CallbackPDUs : handleData(pdu)

HandlersSpec == Init /\ [][HandlersNext]_vars

\* ------------------------------------------------------------------ claims
\* The value in the current protocol's sequence cell.
Cursor == cells[esme.seq]

SendOps == {"submit_sm", "submit_multi", "enquire_link", "query_sm",
            "lc_enquire"}

\* C1: a send operation (submit_sm, submit_multi, query_sm, enquire_link,
\* by the host or by the looping call) called in a state other than
\* BOUND_TX / BOUND_TRX returns 0 and changes nothing: nothing is written,
\* the sequence cell keeps its value, the unacked list keeps its length.
C1_UnboundSendIsNoop ==
    (last.op \in SendOps /\ last.pre.state \notin BoundStates)
    => /\ last.ret = 0
       /\ events = <<>>
       /\ Len(sent) = last.pre.sent
       /\ Cursor = last.pre.cursor
       /\ Len(unacked) = last.pre.unacked
       /\ esme.state = last.pre.state

\* C1's case: submit_sm on a reconnected protocol that is OPEN, not yet
\* bound, while a marker of the earlier connection is still in the list.
C1_Witness ==
    /\ last.op = "submit_sm"
    /\ last.pre.state = "OPEN"
    /\ last.ret = 0
    /\ Len(unacked) = 1

\* C2: the protocol's state is CLOSED, OPEN or BOUND_TRX, is CLOSED when the
\* protocol is built, and changes only CLOSED -> OPEN in connectionMade,
\* OPEN -> BOUND_TRX on a bind_transceiver_resp with ESME_ROK, and to CLOSED
\* in connectionLost; those three operations always end in that state.
C2_StateTransitions ==
    /\ esme.state \in {"CLOSED", "OPEN", "BOUND_TRX"}
    /\ last.op = "buildProtocol" => esme.state = "CLOSED"
    /\ last.op = "connectionMade" => esme.state = "OPEN"
    /\ last.op = "connectionLost" => esme.state = "CLOSED"
    /\ (/\ last.op = "handleData"
        /\ last.pdu.command_id = "bind_transceiver_resp"
        /\ last.pdu.command_status = "ESME_ROK") => esme.state = "BOUND_TRX"
    /\ (last.pre.esme = esme.id /\ esme.state # last.pre.state)
       => \/ /\ last.pre.state = "CLOSED"
             /\ esme.state = "OPEN"
             /\ last.op = "connectionMade"
          \/ /\ last.pre.state = "OPEN"
             /\ esme.state = "BOUND_TRX"
             /\ last.op = "handleData"
             /\ last.pdu.command_id = "bind_transceiver_resp"
             /\ last.pdu.command_status = "ESME_ROK"
          \/ /\ esme.state = "CLOSED"
             /\ last.op = "connectionLost"

\* C2's case: a bound protocol has just lost its connection.
C2_Witness ==
    /\ last.op = "connectionLost"
    /\ last.pre.state = "BOUND_TRX"
    /\ esme.state = "CLOSED"

\* C3: submit_sm on a bound protocol writes one submit_sm PDU numbered with
\* the cell's value, then pushes one marker (the list is one longer), leaves
\* the cell one increment further and returns that PDU's number, not 0.
C3_SubmitWhileBound ==
    (last.op = "submit_sm" /\ last.pre.state \in BoundStates)
    => /\ events = <<Write("submit_sm", last.pre.cursor),
                     Redis("lpush", "unacked")>>
       /\ Len(sent) = last.pre.sent + 1
       /\ sent[Len(sent)].command_id = "submit_sm"
       /\ sent[Len(sent)].sequence_number = last.pre.cursor
       /\ Cursor = last.pre.cursor + inc
       /\ Len(unacked) = last.pre.unacked + 1
       /\ last.ret = last.pre.cursor
       /\ last.ret # 0

\* C3's case: a second submit_sm on a bound protocol.
C3_Witness ==
    /\ last.op = "submit_sm"
    /\ last.pre.state = "BOUND_TRX"
    /\ last.pre.unacked = 1
    /\ last.ret > 0

\* C4: on a store whose unacked list was empty at the start, as long as no
\* submit_sm_resp has arrived with no submit outstanding, the length of the
\* unacked list is the number of submit_sm PDUs sent minus the number of
\* submit_sm_resp PDUs received: 0 after k submits and k responses.
C4_UnackedBalance ==
    strays = 0
    => /\ Len(unacked) = Submits - resps
       /\ Submits = resps => unacked = <<>>

\* C4's case: two submits, then two responses, and the list is empty again.
C4_Witness ==
    /\ Submits = 2
    /\ resps = 2
    /\ strays = 0
    /\ unacked = <<>>
    /\ last.op = "handleData"
    /\ last.pre.unacked = 1

IsSubmitResp ==
    last.op = "handleData" /\ last.pdu.command_id = "submit_sm_resp"

\* C5 as claimed: every submit_sm_resp takes exactly one element off the
\* unacked list.
C5_Original ==
    IsSubmitResp => Len(unacked) = last.pre.unacked - 1

\* C5, amended: every submit_sm_resp, whatever its status, calls the class
\* handler of its status (conn_throttle for ESME_RTHROTTLED), then issues
\* one lpop, which takes one element off the unacked list unless the list
\* is empty, then calls the submit_sm_resp callback once with the PDU's
\* sequence_number, command_status, command_id and message_id.
C5_SubmitResp ==
    IsSubmitResp
    => /\ Len(events) = 3
       /\ events[1].ev = "handler"
       /\ last.pdu.command_status = "ESME_RTHROTTLED"
          => events[1].name = "conn_throttle"
       /\ last.pdu.command_status = "ESME_ROK" => events[1].name = "ok"
       /\ events[2] = Redis("lpop", "unacked")
       /\ events[3] = Callback("on_submit_sm_resp",
                               last.pdu.sequence_number,
                               last.pdu.command_status,
                               "submit_sm_resp:" \o last.pdu.message_id)
       /\ Len(unacked) = IF last.pre.unacked = 0 THEN 0
                         ELSE last.pre.unacked - 1
       /\ Len(sent) = last.pre.sent
       /\ Cursor = last.pre.cursor

\* C5's case: a throttled submit_sm_resp takes one of two markers.
C5_Witness ==
    /\ IsSubmitResp
    /\ last.pdu.command_status = "ESME_RTHROTTLED"
    /\ last.pre.unacked = 2
    /\ Len(unacked) = 1

\* The requests numbered from the cell the factory's __init__ created.
FromInitCell == {i \in 1..Len(sent) : sent[i].cell = 1}

\* C6: the requests numbered from one cell (bind_transceiver, submit_sm,
\* submit_multi, enquire_link, query_sm) carry strictly increasing numbers,
\* one increment or more apart; those of the cell __init__ created are
\* congruent to the offset modulo the increment, and after n of them that
\* cell holds offset + n * increment.
C6_AllocatorSequence ==
    /\ \A i, j \in 1..Len(sent) :
          (i < j /\ sent[i].cell = sent[j].cell)
          => /\ sent[i].sequence_number < sent[j].sequence_number
             /\ (sent[j].sequence_number - sent[i].sequence_number) % inc = 0
    /\ \A i \in FromInitCell : sent[i].sequence_number % inc = off % inc
    /\ cells[1] = off + Cardinality(FromInitCell) * inc

\* C6's case: four requests of different kinds from the first cell, with an
\* increment of 2.
C6_Witness ==
    /\ inc = 2
    /\ off = 2
    /\ Cardinality(FromInitCell) = 4
    /\ sent[1].command_id = "bind_transceiver"
    /\ sent[2].command_id = "enquire_link"
    /\ sent[3].command_id = "submit_multi"
    /\ sent[4].command_id = "query_sm"

\* The connection a request was sent on: each connection starts with its
\* bind_transceiver.
ConnOf(i) ==
    Cardinality({k \in 1..i : sent[k].command_id = "bind_transceiver"})

FirstSubmit(i) ==
    /\ sent[i].command_id = "submit_sm"
    /\ ConnOf(i) = 1
    /\ \A k \in 1..(i - 1) : sent[k].by # "host"

\* The enquire_link PDUs the looping call sent before request i.
TimerRuns(i) == Cardinality({k \in 1..(i - 1) : sent[k].by = "timer"})

\* C8 as claimed: the first bind_transceiver carries the offset and the
\* first submit_sm after it carries increment + offset.
C8_Original ==
    /\ sent # <<>> => /\ sent[1].command_id = "bind_transceiver"
                      /\ sent[1].sequence_number = off
    /\ \A i \in 1..Len(sent) :
          FirstSubmit(i) => sent[i].sequence_number = inc + off

\* C8, amended: the first bind_transceiver carries the offset; the looping
\* call started when the bind is accepted sends an enquire_link at once,
\* which takes offset + increment, so the first submit_sm carries
\* offset + (1 + k) * increment, k >= 1 being the number of enquire_link
\* PDUs the looping call has sent: offset + 2 * increment when it is the
\* third request.
C8_FirstSubmit ==
    /\ sent # <<>> => /\ sent[1].command_id = "bind_transceiver"
                      /\ sent[1].sequence_number = off
    /\ \A i \in 1..Len(sent) :
          FirstSubmit(i)
          => /\ TimerRuns(i) >= 1
             /\ sent[2].command_id = "enquire_link"
             /\ sent[2].sequence_number = off + inc
             /\ sent[i].sequence_number = off + (1 + TimerRuns(i)) * inc
             /\ i = 3 => sent[i].sequence_number = off + 2 * inc

\* C8's case: the host's first send after the bind is a submit_sm.
C8_Witness ==
    /\ Len(sent) = 3
    /\ FirstSubmit(3)
    /\ inc = 2
    /\ off = 1
    /\ sent[3].sequence_number = 5

IsBindResp ==
    last.op = "handleData" /\ last.pdu.command_id = "bind_transceiver_resp"

\* The bind_transceiver PDUs sent so far.
Binds ==
    Cardinality({i \in 1..Len(sent) : sent[i].command_id = "bind_transceiver"})

\* C9: connectionMade writes one bind_transceiver and it is the first PDU
\* the protocol writes, one per connection; a bind_transceiver_resp with
\* ESME_ROK sets BOUND_TRX, starts one looping call and calls the connect
\* callback once, with the protocol already BOUND_TRX; one with another
\* status changes nothing and calls only the class handler.
C9_BindOnOpen ==
    /\ last.op = "connectionMade"
       => /\ events = <<Write("bind_transceiver", last.pre.cursor)>>
          /\ esme.state = "OPEN"
    /\ esme.first \in {"", "bind_transceiver"}
    /\ esme.first = "" <=> link = "built" \/ esme.id = 0
    /\ Binds = IF link = "built" THEN esme.id - 1 ELSE esme.id
    /\ (IsBindResp /\ last.pdu.command_status = "ESME_ROK")
       => /\ esme.state = "BOUND_TRX"
          /\ esme.lc
          /\ esme.timers = last.pre.timers + 1
          /\ Len(events) = 4
          /\ events[1].ev = "handler"
          /\ events[2] = Timer("start")
          /\ events[3] = Write("enquire_link", last.pre.cursor)
          /\ events[4] = Callback("on_connect", esme.id, "", "BOUND_TRX")
    /\ (IsBindResp /\ last.pdu.command_status # "ESME_ROK")
       => /\ esme.state = last.pre.state
          /\ esme.timers = last.pre.timers
          /\ Len(sent) = last.pre.sent
          /\ Len(events) = 1
          /\ events[1].ev = "handler"

\* C9's case: the bind of an OPEN protocol has just been accepted.
C9_Witness ==
    /\ IsBindResp
    /\ last.pdu.command_status = "ESME_ROK"
    /\ last.pre.state = "OPEN"
    /\ esme.state = "BOUND_TRX"
    /\ esme.timers = 1

IsDeliver == last.op = "handleData" /\ last.pdu.command_id = "deliver_sm"

\* The positions of the events of one kind.
EventsOf(kind) == {i \in 1..Len(events) : events[i].ev = kind}

\* One deliver_sm_resp with the deliver_sm's number is written, ahead of
\* every host callback, and the sequence cell is left alone.
Answered ==
    /\ Cardinality(EventsOf("write")) = 1
    /\ \A i \in EventsOf("write") :
          /\ events[i] = Write("deliver_sm_resp", last.pdu.sequence_number)
          /\ \A c \in EventsOf("callback") : i < c
    /\ Cursor = last.pre.cursor
    /\ Len(sent) = last.pre.sent

\* C10 as claimed: every inbound deliver_sm is answered.
C10_Original == IsDeliver => Answered

\* C10, amended: an inbound deliver_sm whose command_status is ESME_ROK is
\* answered with one deliver_sm_resp of the same number, written before any
\* host callback and without touching the cell; a deliver_sm with another
\* status gets no deliver_sm_resp and no host callback.
C10_DeliverResp ==
    IsDeliver
    => IF last.pdu.command_status = "ESME_ROK"
       THEN Answered /\ EventsOf("write") = {2}
       ELSE /\ EventsOf("write") = {}
            /\ EventsOf("callback") = {}
            /\ Cursor = last.pre.cursor
            /\ Len(sent) = last.pre.sent

\* C10's case: a deliver_sm numbered 9 is answered and then delivered.
C10_Witness ==
    /\ IsDeliver
    /\ last.pdu.command_status = "ESME_ROK"
    /\ last.pdu.sequence_number = 9
    /\ Cardinality(EventsOf("write")) = 1
    /\ Cardinality(EventsOf("callback")) = 1
    /\ Cursor # 9

\* The host callbacks of the last operation, by name.
CallbacksNamed(name) == {i \in EventsOf("callback") : events[i].name = name}

\* The text on_deliver_sm gets for a short_message that is neither a receipt
\* nor a part: a unicode object under data_coding 1 and 3, the bytes as they
\* came under a data_coding that names no codec.
DecodedText(pdu) ==
    IF pdu.data_coding \in {1, 3}
    THEN "u'" \o pdu.short_message \o "'"
    ELSE pdu.short_message

\* The branch taken for the last deliver_sm: a receipt goes to the delivery
\* report callback alone, even when it carries the sar_* parameters; else a
\* PDU with sar_* parameters goes to the stored parts alone, with
\* on_deliver_sm only when it completes them; else the decoded text goes to
\* on_deliver_sm alone.
OneBranch ==
    IF last.pdu.short_message = ReceiptText
    THEN /\ Cardinality(EventsOf("callback")) = 1
         /\ Cardinality(CallbacksNamed("on_delivery_report")) = 1
         /\ EventsOf("redis") = {}
    ELSE IF last.pdu.sar # NoSar
    THEN /\ \E i \in EventsOf("redis") : events[i].name = "get"
         /\ Cardinality(EventsOf("callback")) <= 1
         /\ CallbacksNamed("on_delivery_report") = {}
         /\ \A i \in CallbacksNamed("on_deliver_sm") :
               \E d \in EventsOf("redis") : events[d].name = "delete" /\ d < i
    ELSE /\ EventsOf("redis") = {}
         /\ Cardinality(EventsOf("callback")) = 1
         /\ \A i \in EventsOf("callback") :
               events[i] = Callback(esme.callbacks.deliver_sm, 0, "",
                                    DecodedText(last.pdu))

C15_Original ==
    /\ esme.timers <= 1
    /\ esme.timers > 0 => esme.state = "BOUND_TRX"
    /\ last.op = "connectionLost" => esme.timers = 0

\* The events of one kind and name in the journal's i-th entry.
Journalled(i, kind, name) ==
    {k \in 1..Len(journal[i].events) :
        /\ journal[i].events[k].ev = kind
        /\ journal[i].events[k].name = name}

\* The parts the store holds of the observed message.
HeldParts == {r \in multi : r.ref = 2 /\ r.total = 3}

\* C12: whatever order the three fragments of the message arrive in, the
\* first two to arrive are stored and fire no host callback; the third to
\* arrive deletes the key once and then fires on_deliver_sm once, with the
\* texts joined by part number ("he", "l", "lo" give "hello"), and nothing
\* of the message is left in the store.
C12_AnyArrivalOrder ==
    /\ \A i \in 1..Len(journal) :
          IF i < 3
          THEN /\ Journalled(i, "callback", "on_deliver_sm") = {}
               /\ Journalled(i, "redis", "delete") = {}
               /\ Cardinality(Journalled(i, "redis", "set")) = 1
          ELSE /\ Cardinality(Journalled(i, "redis", "delete")) = 1
               /\ Journalled(i, "redis", "set") = {}
               /\ Cardinality(Journalled(i, "callback", "on_deliver_sm")) = 1
               /\ \A k \in Journalled(i, "callback", "on_deliver_sm") :
                     /\ journal[i].events[k].arg = "hello"
                     /\ \A d \in Journalled(i, "redis", "delete") : d < k
    /\ Cardinality(HeldParts) = IF Len(journal) = 3 THEN 0 ELSE Len(journal)

\* C12's case: the fragments have arrived in the order 3, 1, 2 and the
\* message has been delivered.
C12_Witness ==
    /\ Len(journal) = 3
    /\ journal[1].pdu.sar.part = 3
    /\ journal[2].pdu.sar.part = 1
    /\ journal[3].pdu.sar.part = 2
    /\ Cardinality(Journalled(3, "callback", "on_deliver_sm")) = 1
    /\ HeldParts = {}

\* The number of bytes in the first k blocks of the wire.
RECURSIVE EndOf(_)
EndOf(k) == IF k = 0 THEN 0 ELSE EndOf(k - 1) + Len(wire[k])

\* The blocks of the wire that dataReceived has been given in full.
Complete == {k \in 1..Len(wire) : EndOf(k) <= fed}

\* C13: when the wire is made of well-formed PDUs, then however it is cut
\* into chunks the slices handed to handleData are exactly the PDUs given
\* in full so far, whole, once each and in order, each of 16 bytes or more;
\* the datastream holds exactly the bytes given of the PDU that is not yet
\* complete, which are fewer than 16 or fewer than its command_length; and
\* the connection stays up.
C13_Framing ==
    (\A k \in 1..Len(wire) : wire[k] \in WirePDUs)
    => /\ handed = SubSeq(wire, 1, Cardinality(Complete))
       /\ \A i \in 1..Len(handed) : Len(handed[i]) >= 16
       /\ esme.datastream
            = SubSeq(Bytes(wire), EndOf(Cardinality(Complete)) + 1, fed)
       /\ \/ Len(esme.datastream) < 16
          \/ Len(esme.datastream) < command_length(esme.datastream)
       /\ link # "failed"

\* C13's case: a PDU of 16 bytes and one of 19 bytes; the first has been
\* handed over by the chunk that also brought 17 bytes of the second.
C13_Witness ==
    /\ Len(wire) = 2
    /\ Len(wire[1]) = 16
    /\ Len(wire[2]) = 19
    /\ last.op = "dataReceived"
    /\ fed = 33
    /\ handed = <<wire[1]>>
    /\ Len(esme.datastream) = 17
    /\ Len(events) = 1

\* C14 as claimed: no slice shorter than 16 bytes is handed to the
\* unpacker, and a connection that is up does not hold a buffer of 16 bytes
\* or more whose length prefix is below 16 or above the maximum (64 KiB).
C14_Original ==
    /\ \A i \in 1..Len(handed) : Len(handed[i]) >= 16
    /\ (link = "up" /\ Len(esme.datastream) >= 16)
       => command_length(esme.datastream) \in 16..65536

\* The class each status of the SMPP table belongs to, as listed: throttle,
\* temporary and permanent faults of the connection, temporary faults of
\* the message; ESME_ROK is ok and every other status of the table is a
\* permanent fault of the message.
ListedClass(status) ==
    CASE status = "ESME_ROK" -> "ok"
      [] status \in {"ESME_RMSGQFUL", "ESME_RTHROTTLED"} -> "conn_throttle"
      [] status \in {"ESME_RINVBNDSTS", "ESME_RALYBND"} -> "conn_tempfault"
      [] status \in {"ESME_RSYSERR", "ESME_RBINDFAIL", "ESME_RINVPASWD",
                     "ESME_RINVSYSID", "ESME_RINVSERTYP", "ESME_RINVSYSTYP"}
           -> "conn_permfault"
      [] status \in {"ESME_RSUBMITFAIL", "ESME_RINVNUMMSGS",
                     "ESME_RDELIVERYFAILURE", "ESME_RUNKNOWNERR",
                     "ESME_RX_T_APPN"} -> "mess_tempfault"
      [] OTHER -> "mess_permfault"

FaultClasses ==
    {"ok", "mess_permfault", "mess_tempfault", "conn_permfault",
     "conn_tempfault", "conn_throttle"}

\* C16: the class handler called for a PDU is the one listed for its
\* status when the status is in ESME_command_status_map and ok when it is
\* not; it is one handler, of one of the six classes; every status of the
\* table has an entry of its own in the dispatch map, the map has no other
\* entry, and each of the six classes has a status.
C16_Classifier ==
    /\ last.op = "handleData"
       => /\ Cardinality(EventsOf("handler")) = 1
          /\ events[1].ev = "handler"
          /\ events[1].name \in FaultClasses
          /\ events[1].name
               = IF last.pdu.command_status \in StatusTable
                 THEN ListedClass(last.pdu.command_status)
                 ELSE "ok"
          /\ events[1].status = last.pdu.command_status
          /\ events[1].seq = last.pdu.sequence_number
    /\ DispatchMapKeys = StatusTable
    /\ \A class \in FaultClasses :
          \E status \in StatusTable : command_status_dispatch(status) = class

\* C16's case: a status the table does not have has gone to the ok handler.
C16_Witness ==
    /\ last.op = "handleData"
    /\ last.pdu.command_status = "ESME_RFUTURE"
    /\ events = <<Handler(last.pdu)>>
    /\ events[1].name = "ok"

\* What every loss and every failed attempt leaves behind: a loss has
\* called the disconnect callback once, a failed attempt has called
\* nothing, both have counted one more retry and scheduled the next
\* attempt; the factory never gives up.
RetryScheduled ==
    /\ last.op = "connectionLost"
       => /\ Cardinality(CallbacksNamed("on_disconnect")) = 1
          /\ factory.connector = "waiting"
          /\ factory.retries = last.pre.retries + 1
    /\ last.op = "clientConnectionFailed"
       => /\ events = <<>>
          /\ factory.connector = "waiting"
          /\ factory.retries = last.pre.retries + 1
    /\ factory.connector # "stopped"

\* C17: a lost connection calls the disconnect callback exactly once and a
\* failed attempt does not call it; after either, the next connection
\* attempt is scheduled, however many retries there have been, and is
\* eventually made.
C17_Reconnects ==
    /\ []RetryScheduled
    /\ (factory.connector = "waiting") ~> (factory.connector = "connecting")

\* C17's case: the attempt that follows a lost connection and a failed
\* attempt.
C17_Witness ==
    /\ last.op = "reconnect"
    /\ factory.connector = "connecting"
    /\ factory.retries = 2
    /\ esme.id = 1
    /\ esme.state = "CLOSED"

\* The bind of a protocol has just been accepted.
BindSucceeded == IsBindResp /\ last.pdu.command_status = "ESME_ROK"

\* C18 as claimed: the delay and the count of retries go back to their
\* initial values on an accepted bind and on nothing else; building the
\* protocol of a new connection leaves them as they were.
C18_Original ==
    /\ BindSucceeded
       => factory.delay = initialDelay /\ factory.retries = 0
    /\ (factory.delay = initialDelay /\ last.pre.delay # initialDelay)
       => BindSucceeded
    /\ last.op = "buildProtocol"
       => /\ factory.delay = last.pre.delay
          /\ factory.retries = last.pre.retries

\* C18, amended: the delay goes back to initialDelay and the count of
\* retries to 0 when the protocol of a new connection is built, before any
\* bind response, so also for a connection that is dropped before its bind
\* is accepted; a bind response changes neither; a loss and a failed
\* attempt count one retry and lengthen the delay up to maxDelay.
C18_BackoffReset ==
    /\ last.op = "buildProtocol"
       => factory.delay = initialDelay /\ factory.retries = 0
    /\ last.op \in {"connectionLost", "clientConnectionFailed"}
       => /\ factory.retries = last.pre.retries + 1
          /\ factory.delay > last.pre.delay \/ factory.delay = maxDelay
          /\ factory.delay <= maxDelay
    /\ last.op \in {"handleData", "connectionMade", "reconnect", "disconnect"}
       => /\ factory.delay = last.pre.delay
          /\ factory.retries = last.pre.retries

\* C18's case: the second connection is established after the first was
\* lost before any bind response and one attempt failed: the delay, at
\* maxDelay, is reset.
C18_Witness ==
    /\ last.op = "buildProtocol"
    /\ esme.id = 2
    /\ Len(sent) = 1
    /\ last.pre.retries = 2
    /\ last.pre.delay = maxDelay
    /\ factory.delay = initialDelay
    /\ factory.retries = 0

\* C19 as claimed: disconnect stops the looping call, closes the
\* connection, so that the state is CLOSED, and leaves no connection
\* attempt to come.
C19_Original ==
    last.op = "disconnect"
    => /\ esme.timers = 0
       /\ esme.state = "CLOSED"
       /\ link = "down"
       /\ factory.connector \notin {"waiting", "connecting"}

\* C20 as claimed: no sequence cell ever holds a value past 2^31 - 1, an
\* allocation that would take a cell past it puts the cell back to the
\* offset, and every sequence number sent is in 1 .. 2^31 - 1.
C20_Original ==
    /\ \A c \in 1..Len(cells) : ~PastLimit(cells[c]) /\ cells[c] >= 1
    /\ \A i \in 1..Len(sent) :
          /\ ~PastLimit(sent[i].sequence_number)
          /\ sent[i].sequence_number >= 1
    /\ (/\ Len(sent) = last.pre.sent + 1
        /\ last.pre.esme = esme.id
        /\ last.pre.cursor > 2147483647 - inc) => Cursor = off

\* C21: constructing the factory succeeds exactly when
\* increment >= offset >= 1 (so increment >= 1 too); with any other pair it
\* raises and there is no cell and nothing to connect; on success there is
\* one cell, which holds the offset, and the first number sent is the
\* offset.
C21_Construction ==
    /\ last.op = ""
       => cells = <<>> /\ factory.connector = "none"
    /\ last.op # ""
       => IF inc >= off /\ off >= 1
          THEN /\ inc >= 1
               /\ cells # <<>>
               /\ factorySeq = 1
               /\ last.op = "__init__"
                  => cells = <<off>> /\ last.ret = 0
                     /\ factory.connector = "connecting"
               /\ sent # <<>> => sent[1].sequence_number = off
          ELSE /\ last.op = "__init__"
               /\ last.ret = -1
               /\ cells = <<>>
               /\ factorySeq = 0
               /\ factory.connector = "none"
               /\ esme = NoEsme
               /\ sent = <<>>

\* C21's case: the smallest pair that passes (1, 1) has been accepted and
\* its offset has numbered the first bind_transceiver.
C21_Witness ==
    /\ inc = 1
    /\ off = 1
    /\ last.op = "connectionMade"
    /\ Len(sent) = 1
    /\ sent[1].sequence_number = 1

\* C21's other case: a pair with increment >= offset but offset 0 has been
\* refused.
C21_Refused ==
    /\ inc = 2
    /\ off = 0
    /\ last.op = "__init__"
    /\ last.ret = -1
    /\ cells = <<>>

\* The last operation left the protocol, its cell, what was sent and the
\* store as they were.
NothingChanged ==
    /\ esme.id = last.pre.esme
    /\ esme.state = last.pre.state
    /\ esme.timers = last.pre.timers
    /\ Cursor = last.pre.cursor
    /\ Len(sent) = last.pre.sent
    /\ Len(unacked) = last.pre.unacked
    /\ Cardinality(multi) = last.pre.parts

\* C22: submit_multi leaves the unacked list as it is, bound or not: on a
\* bound protocol it writes one submit_multi PDU numbered from the cell,
\* advances the cell by one increment and returns that number.  A
\* submit_multi_resp, whatever its status, calls the class handler and
\* nothing else: no write, no host callback, no store access, and the
\* protocol, the cell, the unacked list and the stored parts stay as they
\* were.
C22_SubmitMulti ==
    /\ last.op = "submit_multi"
       => /\ Len(unacked) = last.pre.unacked
          /\ EventsOf("redis") = {}
          /\ last.pre.state \in BoundStates
             => /\ events = <<Write("submit_multi", last.pre.cursor)>>
                /\ Len(sent) = last.pre.sent + 1
                /\ sent[Len(sent)]
                     = Sent("submit_multi", last.pre.cursor, esme.seq, "host")
                /\ Cursor = last.pre.cursor + inc
                /\ last.ret = last.pre.cursor
    /\ (last.op = "handleData" /\ last.pdu.command_id = "submit_multi_resp")
       => /\ events = <<Handler(last.pdu)>>
          /\ NothingChanged

\* C22's case: a submit_multi on a bound protocol with one submit_sm
\* outstanding: the list still has that one marker.
C22_Witness ==
    /\ last.op = "submit_multi"
    /\ last.pre.state = "BOUND_TRX"
    /\ last.pre.unacked = 1
    /\ last.ret > 0
    /\ Len(unacked) = 1

\* C22's other case: a throttled submit_multi_resp arrives while a marker
\* and a part are in the store.
C22_RespSeen ==
    /\ last.op = "handleData"
    /\ last.pdu.command_id = "submit_multi_resp"
    /\ last.pdu.command_status = "ESME_RTHROTTLED"
    /\ Len(unacked) = 1
    /\ Cardinality(multi) = 1

IsEnquireLink ==
    last.op = "handleData" /\ last.pdu.command_id = "enquire_link"

\* One enquire_link_resp with the request's number and nothing else after
\* the class handler; the cell and everything else stay as they were.
EnquireAnswered ==
    /\ events = <<Handler(last.pdu),
                  Write("enquire_link_resp", last.pdu.sequence_number)>>
    /\ NothingChanged

\* C23 as claimed: every inbound enquire_link is answered with one
\* enquire_link_resp of the same number.
C23_Original == IsEnquireLink => EnquireAnswered

\* C23, amended: an inbound enquire_link whose command_status is ESME_ROK is
\* answered with exactly one enquire_link_resp carrying the request's
\* sequence number, and the cell is not advanced; an enquire_link with
\* another status is not answered; an inbound enquire_link_resp, whatever
\* its status, causes no write and changes nothing.
C23_EnquireLink ==
    /\ IsEnquireLink
       => IF last.pdu.command_status = "ESME_ROK"
          THEN EnquireAnswered
          ELSE events = <<Handler(last.pdu)>> /\ NothingChanged
    /\ (last.op = "handleData" /\ last.pdu.command_id = "enquire_link_resp")
       => /\ events = <<Handler(last.pdu)>>
          /\ NothingChanged

\* C23's case: the SMSC's enquire_link numbered 9 is answered by a bound
\* protocol whose looping call runs and whose cell holds another value.
C23_Witness ==
    /\ IsEnquireLink
    /\ last.pdu.command_status = "ESME_ROK"
    /\ last.pdu.sequence_number = 9
    /\ esme.state = "BOUND_TRX"
    /\ esme.timers = 1
    /\ Cursor # 9
    /\ events[2] = Write("enquire_link_resp", 9)

\* The entries processed() has recorded during the last call on the stack.
Recorded ==
    SubSeq(processed_messages, applied.pre + 1, Len(processed_messages))

\* The message after the first i middlewares of order have each added
\* their name.
RECURSIVE Stamped(_, _, _)
Stamped(message, order, i) ==
    IF i = 0 THEN message ELSE Stamped(message, order, i - 1) \o "." \o order[i]

\* The last call went through the middlewares of order, first to last:
\* one entry each, the i-th by the i-th middleware, with the call's
\* direction and endpoint and the message as the first i have stamped it,
\* and the call returned the message the last one returned.
WentThrough(order) ==
    /\ Len(Recorded) = Len(order)
    /\ \A i \in 1..Len(order) :
          Recorded[i] = <<order[i], applied.direction,
                          Stamped(applied.message, order, i),
                          applied.endpoint>>
    /\ applied.ret = Stamped(applied.message, order, Len(order))

\* C24: apply_consume passes the message through the middlewares in stack
\* order and apply_publish in the reverse order; in both each middleware is
\* called once, gets the message the one before returned and the same
\* endpoint.
C24_StackOrder ==
    /\ applied.op = "apply_consume" => WentThrough(middlewares)
    /\ applied.op = "apply_publish" => WentThrough(Reversed(middlewares))

\* C24's case: the stack mw1, mw2, mw3 has published 'dummy_msg' to
\* 'end_foo', after another message: the worker recorded mw3, mw2, mw1.
C24_Witness ==
    /\ middlewares = <<"mw1", "mw2", "mw3">>
    /\ applied.op = "apply_publish"
    /\ applied.n = 2
    /\ Recorded = << <<"mw3", "inbound", "dummy_msg.mw3", "end_foo">>,
                     <<"mw2", "inbound", "dummy_msg.mw3.mw2", "end_foo">>,
                     <<"mw1", "inbound", "dummy_msg.mw3.mw2.mw1", "end_foo">> >>
    /\ applied.ret = "dummy_msg.mw3.mw2.mw1"

\* The middlewares of the stack, as a set.
InStack == {middlewares[i] : i \in 1..Len(middlewares)}

\* C25: teardown tears down every middleware of the stack exactly once, in
\* the reverse of stack order, one after the other: the calls are those of
\* the stack from last to first, each middleware of the stack has its
\* _teardown_done set, to a time no later than that of the middlewares
\* before it in the stack, and no other middleware is touched; before
\* teardown is called none is torn down.
C25_TeardownOrder ==
    IF applied.op = "teardown"
    THEN /\ teardowns = Reversed(middlewares)
         /\ \A name \in InStack :
               /\ teardown_done[name] # 0
               /\ Cardinality({k \in 1..Len(teardowns) : teardowns[k] = name})
                    = 1
         /\ \A name \in Names \ InStack : teardown_done[name] = 0
         /\ \A i, j \in 1..Len(middlewares) :
               i < j => teardown_done[middlewares[j]]
                          <= teardown_done[middlewares[i]]
    ELSE /\ teardowns = <<>>
         /\ \A name \in Names : teardown_done[name] = 0

\* C25's case: the stack mw1, mw2, mw3 has been torn down after a message
\* went through it, with a clock that moved between the calls: mw3 first,
\* mw1 last.
C25_Witness ==
    /\ middlewares = <<"mw1", "mw2", "mw3">>
    /\ applied.op = "teardown"
    /\ processed_messages # <<>>
    /\ teardowns = <<"mw3", "mw2", "mw1">>
    /\ teardown_done["mw3"] < teardown_done["mw2"]
    /\ teardown_done["mw2"] < teardown_done["mw1"]

C26_Unknown ==
    /\ last.op = "handleData"
    /\ last.pdu.command_id = "None"
    /\ last.pdu.command_status = "ESME_RTHROTTLED"
    /\ last.handler = ""
    /\ Len(unacked) = 1
    /\ Cardinality(multi) = 1

\* The part numbers of the fragments among the first i arrivals.
ReceivedBy(i) == {journal[k].pdu.sar.part : k \in 1..i}

\* The part numbers received among the first i arrivals since the parts
\* were last complete.
RECURSIVE ReceivedSince(_)
ReceivedSince(i) ==
    IF i = 0 THEN {}
    ELSE LET now == ReceivedSince(i - 1) \cup {journal[i].pdu.sar.part}
         IN  IF Cardinality(now) = 3 THEN {} ELSE now

\* The i-th arrival wrote the parts back and called nothing.
WroteBack(i) ==
    /\ Cardinality(Journalled(i, "redis", "set")) = 1
    /\ Journalled(i, "redis", "delete") = {}
    /\ {k \in 1..Len(journal[i].events) :
            journal[i].events[k].ev = "callback"} = {}

\* The i-th arrival deleted the entry and then delivered the message.
Delivered(i) ==
    /\ Cardinality(Journalled(i, "redis", "delete")) = 1
    /\ Journalled(i, "redis", "set") = {}
    /\ Cardinality(Journalled(i, "callback", "on_deliver_sm")) = 1
    /\ \A k \in Journalled(i, "callback", "on_deliver_sm") :
          /\ journal[i].events[k].arg = "hello"
          /\ \A d \in Journalled(i, "redis", "delete") : d < k

\* C27 as claimed: the entry exists exactly while at least one but not all
\* of the message's distinct fragments have been received; an arrival
\* short of that writes back and calls nothing, the arrival that brings
\* the last distinct fragment deletes and delivers, and no entry is left
\* once all have been received.
C27_Original ==
    /\ HeldParts # {}
       <=> Cardinality(ReceivedBy(Len(journal))) \in 1..2
    /\ \A i \in 1..Len(journal) :
          IF Cardinality(ReceivedBy(i)) < 3
          THEN WroteBack(i)
          ELSE Cardinality(ReceivedBy(i - 1)) < 3 => Delivered(i)

\* C27, amended: the entry exists exactly while at least one but not all
\* of the distinct fragments have been received since the entry was last
\* deleted (or since the start), and holds exactly those: an arrival that
\* leaves the parts short of complete writes them back and calls nothing,
\* a repeated fragment included; the arrival that completes them deletes
\* the entry and then calls on_deliver_sm once; a fragment that arrives
\* again after that starts a new entry.
C27_EntryLifetime ==
    /\ {r.part : r \in HeldParts} = ReceivedSince(Len(journal))
    /\ HeldParts # {}
       <=> Cardinality(ReceivedSince(Len(journal))) \in 1..2
    /\ \A i \in 1..Len(journal) :
          IF ReceivedSince(i) = {} THEN Delivered(i) ELSE WroteBack(i)

\* C27's case: part 1 twice, then parts 2 and 3, which complete the
\* message, then part 2 again: the store has an entry with that part.
C27_Witness ==
    /\ Len(journal) = 5
    /\ journal[1].pdu.sar.part = 1
    /\ journal[2].pdu.sar.part = 1
    /\ journal[3].pdu.sar.part = 2
    /\ journal[4].pdu.sar.part = 3
    /\ journal[5].pdu.sar.part = 2
    /\ Delivered(4)
    /\ {r.part : r \in HeldParts} = {2}

\* C28: connectionLost stops the looping call exactly once: when the
\* protocol has one, as every bound protocol has, it is stopped once and
\* the attribute is gone; a second
\* connectionLost on the same protocol, and a connectionLost on a protocol
\* no bind of which was accepted, stop nothing, raise nothing and leave the
\* state CLOSED.
C28_StopOnce ==
    /\ last.op \in {"connectionLost", "connectionLostAgain"}
       => /\ esme.state = "CLOSED"
          /\ ~esme.lc
          /\ EventsOf("raise") = {}
          /\ Cardinality(EventsOf("timer")) = IF last.pre.lc THEN 1 ELSE 0
          /\ \A i \in EventsOf("timer") : events[i] = Timer("stop")
          /\ esme.timers = IF last.pre.lc THEN last.pre.timers - 1
                            ELSE last.pre.timers
          /\ last.pre.state = "BOUND_TRX" => last.pre.lc
          /\ Cursor = last.pre.cursor
          /\ Len(sent) = last.pre.sent
    /\ last.op = "connectionLostAgain"
       => /\ last.pre.state = "CLOSED"
          /\ ~last.pre.lc
          /\ events = <<>>
          /\ NothingChanged

\* C28's case: connectionLost a second time on a protocol that was bound
\* and whose looping call the first connectionLost stopped.
C28_Witness ==
    /\ last.op = "connectionLostAgain"
    /\ esme.first = "bind_transceiver"
    /\ \E i \in 1..Len(sent) : sent[i].by = "timer"
    /\ esme.state = "CLOSED"
    /\ esme.timers = 0
    /\ events = <<>>

\* C28's other case: the connection of a protocol that is OPEN, its bind
\* refused, is lost.
C28_NeverBound ==
    /\ last.op = "connectionLost"
    /\ last.pre.state = "OPEN"
    /\ last.pre.timers = 0
    /\ EventsOf("timer") = {}
    /\ esme.state = "CLOSED"

\* ---------------------------------------------------------------------- C29
\* The step is a successful submit_sm: the protocol was bound.
SubmitSucceeds == last'.op = "submit_sm" /\ SendAllowed(esme.state)

\* The step is a received submit_sm_resp.
SubmitRespReceived ==
    last'.op = "handleData" /\ last'.pdu.command_id = "submit_sm_resp"

\* C29: the length of the unacked list changes only on a successful
\* submit_sm, by +1, and on a received submit_sm_resp, by -1 or not at all
\* when it is already 0; every other step (connect, bind, disconnect, the
\* other requests and inbound PDUs) leaves it as it is, and it is never
\* negative.
C29_UnackedFrame ==
    [][/\ SubmitSucceeds => Len(unacked') = Len(unacked) + 1
       /\ SubmitRespReceived
          => Len(unacked') = IF Len(unacked) = 0 THEN 0 ELSE Len(unacked) - 1
       /\ ~SubmitSucceeds /\ ~SubmitRespReceived => unacked' = unacked
       /\ Len(unacked') >= 0]_vars

\* Every submit_sm sent so far was sent before the latest bind_transceiver.
SubmitsOfEarlierSessions ==
    \A i \in 1..Len(sent) :
        sent[i].command_id = "submit_sm"
        => \E j \in (i + 1)..Len(sent) : sent[j].command_id = "bind_transceiver"

\* Witness: the second protocol has connected and sent its bind, no
\* submit_sm was made on it, and the marker of the first session's
\* unanswered submit_sm was still in the list for the submit_sm_resp that
\* has just popped it.
C29_Witness ==
    /\ esme.id = 2
    /\ esme.state = "OPEN"
    /\ last.op = "handleData"
    /\ last.pdu.command_id = "submit_sm_resp"
    /\ last.pre.unacked = 1
    /\ Len(unacked) = 0
    /\ SubmitsOfEarlierSessions
    /\ \E i \in 1..Len(sent) : sent[i].command_id = "submit_sm"

\* ---------------------------------------------------------------------- C30
\* The step sends a request: it is numbered with the value of the
\* protocol's own cell, which alone advances.
NumberedFromOwnCell ==
    /\ sent'[Len(sent')].cell = esme'.seq
    /\ sent'[Len(sent')].sequence_number = cells[esme'.seq]
    /\ cells'[esme'.seq] = PyAdd(cells[esme'.seq], inc)
    /\ \A c \in 1..Len(cells) : c # esme'.seq => cells'[c] = cells[c]

\* C30: the factory and the protocol refer to the same sequence cell from
\* buildProtocol on, and only setLatestSequenceNumber parts them: it gives
\* the factory a new cell and updates no cell that exists, so a protocol
\* already built keeps numbering from the old cell and the value set is
\* used by the protocol that the next buildProtocol builds.
C30_SharedCell ==
    [][/\ last'.op = "setLatestSequenceNumber"
          => /\ factorySeq' = Len(cells) + 1
             /\ cells'[factorySeq'] \in LatestValues
             /\ \A c \in 1..Len(cells) : cells'[c] = cells[c]
             /\ esme' = esme
       /\ last'.op # "setLatestSequenceNumber" => factorySeq' = factorySeq
       /\ last'.op = "buildProtocol" => esme'.seq = factorySeq'
       /\ last'.op # "buildProtocol" => esme'.seq = esme.seq
       /\ (esme.id > 0 /\ esme.seq = factorySeq /\ esme'.seq # factorySeq')
          => last'.op = "setLatestSequenceNumber"
       /\ Len(sent') > Len(sent) => NumberedFromOwnCell]_vars

\* Witness: after setLatestSequenceNumber the connected protocol has sent a
\* submit_sm numbered from the old cell, not the factory's.
C30_Witness ==
    /\ esme.id > 0
    /\ esme.seq # factorySeq
    /\ last.op = "submit_sm"
    /\ last.ret > 0
    /\ sent[Len(sent)].cell = esme.seq
    /\ sent[Len(sent)].sequence_number = last.pre.cursor
    /\ cells[factorySeq] \in LatestValues

\* The protocol built after setLatestSequenceNumber has sent its
\* bind_transceiver with the value set, while the protocol before it
\* numbered from the first cell.
C30_NextConnection ==
    /\ esme.id = 2
    /\ last.op = "connectionMade"
    /\ esme.seq = factorySeq
    /\ factorySeq = 2
    /\ sent[Len(sent)].cell = 2
    /\ sent[Len(sent)].sequence_number \in LatestValues
    /\ \E i \in 1..Len(sent) : sent[i].cell = 1

\* ---------------------------------------------------------------------- C31
\* The step is handleData on a refusal that reaches an OPEN protocol.
RefusedNow ==
    /\ last'.op = "handleData"
    /\ last'.pdu \in BindRefusals
    /\ esme.state = "OPEN"

\* The step is handleData on a bind_transceiver_resp with ESME_ROK.
AcceptedNow ==
    /\ last'.op = "handleData"
    /\ last'.pdu.command_id = "bind_transceiver_resp"
    /\ last'.pdu.command_status = "ESME_ROK"

\* C31 as stated: once its bind is refused, the protocol is OPEN with no
\* looping call, and every send returns 0, for as long as the connection is
\* up.
C31_Original ==
    (refused /\ link = "up")
    => /\ esme.state = "OPEN"
       /\ ~esme.lc
       /\ esme.timers = 0
       /\ last.op \in SendOps => last.ret = 0

\* C31: handling a refusal in OPEN calls the class handler of its status
\* and nothing else: the protocol is as before, the connection up, nothing
\* written, no looping call, no connect callback.  From then on, while the
\* protocol is OPEN, every send returns 0 and writes nothing, and only two
\* steps end that: connectionLost, which closes, and a bind_transceiver_resp
\* with ESME_ROK, which binds in spite of the refusal.
C31_RefusedBind ==
    [][/\ RefusedNow
          => /\ refused'
             /\ esme' = esme
             /\ link' = "up"
             /\ sent' = sent
             /\ cells' = cells
             /\ events' = <<Handler(last'.pdu)>>
       /\ (refused /\ esme.state = "OPEN")
          => /\ link = "up"
             /\ ~esme.lc
             /\ esme.timers = 0
             /\ last'.op \in SendOps
                => /\ last'.ret = 0
                   /\ events' = <<>>
                   /\ sent' = sent
                   /\ cells' = cells
                   /\ esme' = esme
             /\ esme'.state # "OPEN"
                => \/ last'.op = "connectionLost" /\ esme'.state = "CLOSED"
                   \/ AcceptedNow /\ esme'.state = "BOUND_TRX"
             /\ link' # "up" => last'.op = "connectionLost"
             /\ ~AcceptedNow
                => /\ sent' = sent
                   /\ esme'.timers = 0
                   /\ \A i \in 1..Len(events') :
                          events'[i].ev \notin {"write", "timer"}
                          /\ events'[i].name # "on_connect"]_vars

\* Witness: a submit_sm on a protocol whose bind was refused returns 0; the
\* connection is still up and the protocol OPEN.
C31_Witness ==
    /\ refused
    /\ link = "up"
    /\ esme.state = "OPEN"
    /\ last.op = "submit_sm"
    /\ last.ret = 0
    /\ esme.timers = 0

\* A bind refused and then accepted on the same connection: the protocol
\* is bound and a submit_sm has been sent.
C31_BoundAfterRefusal ==
    /\ refused
    /\ link = "up"
    /\ esme.state = "BOUND_TRX"
    /\ last.op = "submit_sm"
    /\ last.ret > 0

\* ---------------------------------------------------------------------- C32
\* The part numbers of the fragments that have arrived so far.
ArrivedParts == {journal[i].pdu.sar.part : i \in 1..Len(journal)}

\* The fragments arrived on more than one connection: the last one reached
\* a protocol built after the one the first reached.
SpreadOverConnections ==
    /\ Len(journal) = 3
    /\ journal[1].esme < journal[3].esme

\* C32: the parts of a message that is not complete stay in the store,
\* under the key every protocol of the factory uses, through connection
\* loss, reconnection and the building of new protocols; when the last
\* fragment arrives on a later connection than the first, the protocol of
\* that connection finds the parts, deletes the key once and then fires
\* on_deliver_sm once with the whole text.
C32_SurvivesReconnect ==
    /\ Len(journal) < 3 => {r.part : r \in HeldParts} = ArrivedParts
    /\ \A r \in HeldParts : r.key = "system_id@host:port#multi_2_3"
    /\ last.op \in {"connectionLost", "reconnect", "buildProtocol",
                    "connectionMade"}
       => Cardinality(multi) = last.pre.parts
    /\ SpreadOverConnections
       => /\ Journalled(1, "callback", "on_deliver_sm") = {}
          /\ Journalled(2, "callback", "on_deliver_sm") = {}
          /\ Cardinality(Journalled(3, "redis", "get")) = 1
          /\ Cardinality(Journalled(3, "redis", "delete")) = 1
          /\ Journalled(3, "redis", "set") = {}
          /\ Cardinality(Journalled(3, "callback", "on_deliver_sm")) = 1
          /\ \A k \in Journalled(3, "callback", "on_deliver_sm") :
                /\ journal[3].events[k].arg = "hello"
                /\ \A d \in Journalled(3, "redis", "delete") : d < k
          /\ HeldParts = {}

\* Witness: parts 1 and 2 arrived on the first connection, part 3 on the
\* second, whose protocol has delivered the message and emptied the store.
C32_Witness ==
    /\ Len(journal) = 3
    /\ journal[1].esme = 1 /\ journal[1].pdu.sar.part = 1
    /\ journal[2].esme = 1 /\ journal[2].pdu.sar.part = 2
    /\ journal[3].esme = 2 /\ journal[3].pdu.sar.part = 3
    /\ esme.id = 2
    /\ Cardinality(Journalled(3, "callback", "on_deliver_sm")) = 1
    /\ multi = {}

\* ---------------------------------------------------------------------- C33
\* The callbacks a protocol has.
CallbacksOf(e) ==
    {e.callbacks.connect, e.callbacks.submit_sm_resp,
     e.callbacks.delivery_report, e.callbacks.deliver_sm}

\* C33: update_error_handlers changes, on the protocol it is called on, the
\* handlers of the classes its dict names and no other, and nothing of the
\* factory; buildProtocol gives the new protocol the six dummy handlers,
\* whatever the protocol before it had, and the four callbacks the factory
\* has; no other operation changes a protocol's handlers or callbacks, and
\* handleData calls the handler the protocol has for the class of the
\* status and only callbacks the protocol has.
C33_HandlersPerProtocol ==
    [][/\ last'.op = "update_error_handlers"
          => /\ \A c \in DOMAIN last'.dict :
                    esme'.error_handlers[c] = last'.dict[c]
             /\ \A c \in ErrorClasses \ DOMAIN last'.dict :
                    esme'.error_handlers[c] = esme.error_handlers[c]
             /\ esme'.id = esme.id
             /\ esme'.callbacks = esme.callbacks
             /\ factory' = factory
       /\ last'.op = "buildProtocol"
          => /\ esme'.id = esme.id + 1
             /\ esme'.error_handlers = DefaultHandlers
             /\ esme'.callbacks = factory.callbacks
             /\ factory'.callbacks = factory.callbacks
       /\ last'.op \notin {"update_error_handlers", "buildProtocol"}
          => /\ esme'.error_handlers = esme.error_handlers
             /\ esme'.callbacks = esme.callbacks
       /\ last'.op = "handleData"
          => /\ events'[1].ev = "handler"
             /\ events'[1].fn = esme.error_handlers[events'[1].name]
             /\ \A i \in 1..Len(events') :
                    events'[i].ev = "callback"
                    => events'[i].name \in CallbacksOf(esme)]_vars

\* Witness: the second protocol has just been built; the first had the
\* host's handler for conn_throttle and every other class its dummy, the
\* second has the six dummies, and the connect callback the host gave the
\* factory in the meantime.
C33_Witness ==
    /\ last.op = "buildProtocol"
    /\ esme.id = 2
    /\ last.pre.handlers =
          [DefaultHandlers EXCEPT !["conn_throttle"] = "host_throttle"]
    /\ esme.error_handlers = DefaultHandlers
    /\ factory.callbacks.connect = "on_connect_2"
    /\ esme.callbacks = factory.callbacks

\* The host's handler is called: a throttled submit_sm_resp reaches the
\* protocol the handler was installed on.
C33_HostHandlerCalled ==
    /\ last.op = "handleData"
    /\ last.pdu.command_status = "ESME_RTHROTTLED"
    /\ events[1].fn = "host_throttle"
    /\ esme.error_handlers["ok"] = "dummy_ok"

\* The dummy is called again: a throttled submit_sm_resp reaches the
\* second protocol, on which nothing was installed.
C33_DummyCalledAgain ==
    /\ esme.id = 2
    /\ last.op = "handleData"
    /\ last.pdu.command_status = "ESME_RTHROTTLED"
    /\ events[1].fn = "dummy_conn_throttle"

============================================================================
